---- MODULE Spec2Model ----
(***************************************************************************)
(* Relay server (src/src/p2p/src/server.rs) and client                     *)
(* (src/src/p2p/src/client.rs) of the p2p chat overlay, with the wire      *)
(* codec of src/src/p2p/src/common.rs.                                     *)
(*                                                                         *)
(* In the server and client sections a frame is modelled as two bytes: one *)
(* payload byte standing for the JSON text of a Message, and the delimiter *)
(* byte; the timestamp of a Message is never read there and is left out.   *)
(* The wire codec section models the JSON text itself, byte by byte.       *)
(* Option<String> is a sequence of length 0 (None) or 1 (Some).            *)
(***************************************************************************)
EXTENDS Integers, Sequences, FiniteSets, TLC

\* ---------------------------------------------------------------- bounds
MaxConns == 2      \* connections accepted in one run
MaxBuf == 2        \* bytes a connection buffer may hold
MaxTime == 61      \* last instant of the monotonic clock, in seconds
MaxQueued == 2     \* messages or commands waiting in a channel of the client
MaxProduced == 3   \* messages and commands other threads send in one run
MaxStr == 2        \* characters of a string field of an encoded Message

\* ------------------------------------------------------- program constants
SERVER == 0
WAKE == 1
FIRST_PEER == 2
HeartbeatSecs == 30
PeerTimeoutSecs == 60
\* client.rs
LISTENER == 1
FIRST_PEER_TOKEN == 1000
max_reconnect_attempts == 5
ClientHeartbeatSecs == 30
\* common.rs: the largest sender_listen_port (u16)
U16_MAX == 65535

Users == {"alice", "bob"}
LocalAddr == "127.0.0.1"
PortOf(u) == IF u = "alice" THEN 9101 ELSE 9102
ClockStep == PeerTimeoutSecs + 1

AllTokens == FIRST_PEER .. (FIRST_PEER + MaxConns - 1)
CrowdTokens == FIRST_PEER .. (FIRST_PEER + MaxConns)

None == <<>>
Some(x) == <<x>>

\* ------------------------------------------------------------ map helpers
Put(f, k, v) == [x \in (DOMAIN f) \cup {k} |-> IF x = k THEN v ELSE f[x]]
Remove(f, k) == [x \in (DOMAIN f) \ {k} |-> f[x]]
Min(a, b) == IF a < b THEN a ELSE b
IsPrefix(p, q) == Len(p) <= Len(q) /\ SubSeq(q, 1, Len(p)) = p
Drop(q, n) == SubSeq(q, n + 1, Len(q))

\* --------------------------------------------------------------- messages
Message(t, s, tgt, c, a, p) ==
    [msg_type |-> t, sender_id |-> s, target_id |-> tgt, content |-> c,
     sender_peer_address |-> a, sender_listen_port |-> p]

PeerInfo(u, a, p, at) ==
    [user_id |-> u, address |-> a, port |-> p, last_heartbeat |-> at]

\* what a client may put on its server link
JoinMsg(u) == Message("Join", u, None, None, LocalAddr, PortOf(u))
LeaveMsg(u) == Message("Leave", u, None, None, "", 0)
ChatMsg(u, tgt) == Message("Chat", u, tgt, Some("hi"), "", 0)
HeartbeatMsg(u) == Message("Heartbeat", u, None, None, "", 0)
PeerListRequestMsg(u) == Message("PeerListRequest", u, None, None, "", 0)
ConnectRequestMsg(u, v) == Message("ConnectRequest", u, Some(v), None, "", 0)

\* the frames of the scenario clients: alice and bob join and leave, alice
\* broadcasts and writes to bob, alice asks for the peer list and for bob's
\* address
ClientMsgs ==
    {JoinMsg(u) : u \in Users} \cup {LeaveMsg(u) : u \in Users}
    \cup {ChatMsg("alice", None), ChatMsg("alice", Some("bob"))}
    \cup {HeartbeatMsg("alice"), PeerListRequestMsg("alice"),
          ConnectRequestMsg("alice", "bob")}

\* the frames of clients on blocking sockets: alice joins and broadcasts
IOMsgs == {JoinMsg("alice"), ChatMsg("alice", None)}

\* the frames of a crowd: alice and bob join, alice leaves or broadcasts
CrowdMsgs ==
    {JoinMsg(u) : u \in Users}
    \cup {LeaveMsg("alice"), ChatMsg("alice", None)}

\* two frames that may arrive in one read: a client joins and asks for the
\* peer list at once, leaves and joins again, or goes on after its Leave
Batches ==
    {<<JoinMsg("alice"), PeerListRequestMsg("alice")>>,
     <<LeaveMsg("alice"), JoinMsg("alice")>>,
     <<LeaveMsg("alice"), PeerListRequestMsg("alice")>>,
     <<LeaveMsg("alice"), ChatMsg("alice", None)>>}

\* the frames of clients that join, leave, stay alive and ask for the list
TimedMsgs ==
    {JoinMsg(u) : u \in Users}
    \cup {LeaveMsg("alice"), HeartbeatMsg("alice"),
          PeerListRequestMsg("alice")}

\* ------------------------------------------------------------- wire codec
NL == [nl |-> TRUE, json |-> <<>>]
Payload(m) == [nl |-> FALSE, json |-> <<m>>]
\* bytes that are not the JSON text of a Message
Junk == [nl |-> FALSE, json |-> <<>>]

serialize_message(message) == <<Payload(message), NL>>

deserialize_message(data) ==
    IF Len(data) = 1 /\ ~data[1].nl /\ data[1].json # <<>>
    THEN [ok |-> TRUE, msg |-> data[1].json]
    ELSE [ok |-> FALSE, msg |-> <<>>]

HasDelimiter(buffer) == \E i \in 1..Len(buffer) : buffer[i].nl
DelimiterPos(buffer) ==
    CHOOSE i \in 1..Len(buffer) :
        buffer[i].nl /\ \A j \in 1..(i - 1) : ~buffer[j].nl

\* a parser that gives up at the first frame that does not decode
RECURSIVE ParseFramesUntilMalformed(_, _)
ParseFramesUntilMalformed(buffer, messages) ==
    IF ~HasDelimiter(buffer)
    THEN [messages |-> messages, rest |-> buffer]
    ELSE LET pos == DelimiterPos(buffer)
             message_data == SubSeq(buffer, 1, pos - 1)
             d == deserialize_message(message_data)
         IN  IF d.ok
             THEN ParseFramesUntilMalformed(Drop(buffer, pos),
                                            messages \o d.msg)
             ELSE [messages |-> messages, rest |-> Drop(buffer, pos)]

\* the frames of try_parse_messages: every delimiter-terminated frame is
\* drained, the ones that decode are collected, the rest of the buffer stays
RECURSIVE ParseFrames(_, _)
ParseFrames(buffer, messages) ==
    IF ~HasDelimiter(buffer)
    THEN [messages |-> messages, rest |-> buffer]
    ELSE LET pos == DelimiterPos(buffer)
             message_data == SubSeq(buffer, 1, pos - 1)
             d == deserialize_message(message_data)
         IN  ParseFrames(Drop(buffer, pos),
                         IF d.ok THEN messages \o d.msg ELSE messages)

\* bytes after the last delimiter of a byte sequence
RECURSIVE AfterLastDelimiter(_)
AfterLastDelimiter(bytes) ==
    IF ~HasDelimiter(bytes) THEN bytes
    ELSE AfterLastDelimiter(Drop(bytes, DelimiterPos(bytes)))


\* ------------------------------------------------------------------ state
VARIABLES
    streams,        \* tokens with an open TcpStream
    buffers,        \* token -> bytes (the one buffer map of the server)
    interest,       \* token -> "R" | "RW", the interest registered with poll
    peers,          \* token -> PeerInfo
    user_to_token,  \* user_id -> token
    next_token,
    last_heartbeat, \* instant of the last server heartbeat broadcast
    running,        \* start has not returned
    pending,        \* messages parsed by try_parse_messages, not yet handled
    pend_token,     \* the connection they were read from
    now,            \* the monotonic clock
    owed,           \* token -> bytes given to send_message, not yet on the wire
    misordered,     \* tokens whose socket accepted bytes other than the owed ones
    inbound,        \* token -> bytes received after the last received delimiter
    last,           \* the step the server took last
    sent,           \* the send_message calls of that step, in order
    heard,          \* the bytes a read step had to parse: those received
                    \* since the last received delimiter, and the new ones
    client,         \* the fields of P2PClient, with its two channels
    run,            \* the position and the counter of the client loop
    wire,           \* the write_all calls of the last client step, in order
    handled,        \* the messages it gave to handle_message, in order
    received,       \* the bytes its read had to parse, and their link
    unparsed,       \* link -> bytes received after the last delimiter
    produced,       \* messages and commands other threads have sent so far
    codec,          \* a Message on its way through the wire codec
    listener        \* the listening socket of the server: connections that
                    \* wait to be accepted, and whether poll will report it

vars == <<streams, buffers, interest, peers, user_to_token, next_token,
          last_heartbeat, running, pending, pend_token, now, owed,
          misordered, inbound, last, sent, heard, client, run, wire,
          handled, received, unparsed, produced, codec, listener>>
server_vars == <<streams, buffers, interest, peers, user_to_token,
                 next_token, last_heartbeat, running, pending, pend_token,
                 now, owed, misordered, inbound, last, sent, heard,
                 listener>>
client_vars == <<client, run, wire, handled, received, unparsed, produced>>
\* no Message is on its way through the codec
NoCodec ==
    [pc |-> "none", message |-> <<>>, data |-> <<>>, stripped |-> FALSE,
     decoded |-> <<>>]

\* the fields of P2PServer the handlers work on, with the send log of a step
State ==
    [streams |-> streams, buffers |-> buffers, interest |-> interest,
     peers |-> peers, user_to_token |-> user_to_token,
     last_heartbeat |-> last_heartbeat, now |-> now, owed |-> owed,
     misordered |-> misordered, inbound |-> inbound,
     result |-> "Ok", sent |-> <<>>, heard |-> <<>>]

Install(s) ==
    /\ streams' = s.streams
    /\ buffers' = s.buffers
    /\ interest' = s.interest
    /\ peers' = s.peers
    /\ user_to_token' = s.user_to_token
    /\ last_heartbeat' = s.last_heartbeat
    /\ owed' = s.owed
    /\ misordered' = s.misordered
    /\ inbound' = s.inbound
    /\ sent' = s.sent
    /\ heard' = s.heard

Step(kind, token) == [kind |-> kind, token |-> token]

\* iteration order of a HashMap: some order of its keys
Orders(keys) ==
    {ord \in [1..Cardinality(keys) -> keys] :
        \A i, j \in 1..Cardinality(keys) : i # j => ord[i] # ord[j]}
Keys(ord, f) == SelectSeq(ord, LAMBDA t : t \in DOMAIN f)

\* what stream.write(data) returns on a socket: -1 a fatal error,
\* 0 WouldBlock, n > 0 Ok(min(n, len))
FatalError == -1
WouldBlock == 0
FrameLen == Len(serialize_message(JoinMsg("alice")))
AnyWrite == FatalError .. FrameLen
Complete == {FrameLen}
CompleteOrFail == {FatalError, FrameLen}
\* the results of the writes of one handler call, per stream; a fatal error
\* returns from the handler, so at most one write of a call meets one
Writes(outcomes) ==
    {w \in [streams -> outcomes] :
        Cardinality({t \in streams : w[t] = FatalError}) <= 1}

\* the socket of token accepted the bytes x
Accepted(s, token, x) ==
    IF token \in s.misordered THEN s
    ELSE IF IsPrefix(x, s.owed[token])
         THEN [s EXCEPT !.owed[token] = Drop(@, Len(x))]
         ELSE [s EXCEPT !.misordered = @ \cup {token}, !.owed[token] = <<>>]

Owe(s, token, data) ==
    IF token \in s.misordered THEN s
    ELSE [s EXCEPT !.owed[token] = @ \o data]

\* ---------------------------------------------------------------- server
remove_peer(s, token) ==
    [s EXCEPT
        !.user_to_token = IF token \in DOMAIN s.peers
                          THEN Remove(@, s.peers[token].user_id) ELSE @,
        !.peers = Remove(@, token),
        !.streams = @ \ {token},
        !.buffers = Remove(@, token),
        !.interest = Remove(@, token),
        !.owed = Remove(@, token),
        !.misordered = @ \ {token},
        !.inbound = Remove(@, token)]

Log(s, token, message, res) ==
    [s EXCEPT !.sent = Append(@, [to |-> token, msg |-> message, res |-> res])]

send_message(s, token, message, w) ==
    IF token \notin s.streams THEN Log(s, token, message, "nostream")
    ELSE
    LET data == serialize_message(message)
        s0 == Owe(s, token, data)
        n == Min(w[token], Len(data))
    IN  IF w[token] > WouldBlock
        THEN IF n < Len(data)
             THEN Log([Accepted(s0, token, SubSeq(data, 1, n)) EXCEPT
                          !.buffers[token] = @ \o Drop(data, n),
                          !.interest[token] = "RW"],
                      token, message, "partial")
             ELSE Log(Accepted(s0, token, data), token, message, "written")
        ELSE IF w[token] = WouldBlock
        THEN Log([s0 EXCEPT !.buffers[token] = @ \o data,
                            !.interest[token] = "RW"],
                 token, message, "buffered")
        ELSE [Log(remove_peer(s0, token), token, message, "error")
                 EXCEPT !.result = "Err"]

\* for t in recipients { self.send_message(t, message)?; }
RECURSIVE send_all(_, _, _, _)
send_all(s, recipients, message, w) ==
    IF recipients = <<>> \/ s.result = "Err" THEN s
    ELSE send_all(send_message(s, Head(recipients), message, w),
                  Tail(recipients), message, w)

Quote(str) == "\"" \o str \o "\""
TupleJson(info) ==
    "[" \o Quote(info.user_id) \o "," \o Quote(info.address) \o ","
        \o ToString(info.port) \o "]"
RECURSIVE JoinJson(_)
JoinJson(infos) ==
    IF infos = <<>> THEN ""
    ELSE IF Len(infos) = 1 THEN TupleJson(infos[1])
    ELSE TupleJson(infos[1]) \o "," \o JoinJson(Tail(infos))
PeerListJson(infos) == "[" \o JoinJson(infos) \o "]"

\* a server that leaves the requester's own entry out of the list
send_peer_list_without_self(s, token, ord, w) ==
    LET keys == SelectSeq(Keys(ord, s.peers), LAMBDA t : t # token)
        peer_list == [i \in 1..Len(keys) |-> s.peers[keys[i]]]
        peer_list_message ==
            Message("PeerList", "SERVER", None,
                    Some(PeerListJson(peer_list)), "", 0)
    IN  send_message(s, token, peer_list_message, w)

send_peer_list(s, token, ord, w) ==
    LET keys == Keys(ord, s.peers)
        peer_list == [i \in 1..Len(keys) |-> s.peers[keys[i]]]
        peer_list_message ==
            Message("PeerList", "SERVER", None,
                    Some(PeerListJson(peer_list)), "", 0)
    IN  send_message(s, token, peer_list_message, w)

handle_join_message(s, message, token, ord, w) ==
    LET user_id == message.sender_id
        peer_info == PeerInfo(user_id, message.sender_peer_address,
                              message.sender_listen_port, s.now)
        s1 == [s EXCEPT !.peers = Put(@, token, peer_info),
                        !.user_to_token = Put(@, user_id, token)]
        join_notification ==
            Message("UserJoined", user_id, None, Some(user_id),
                    message.sender_peer_address, message.sender_listen_port)
        recipients == SelectSeq(Keys(ord, s1.peers), LAMBDA t : t # token)
        s2 == send_all(s1, recipients, join_notification, w)
    IN  IF s2.result = "Err" THEN s2 ELSE send_peer_list(s2, token, ord, w)

handle_leave_message(s, message, token, ord, w) ==
    LET user_id == message.sender_id
        s1 == remove_peer(s, token)
        leave_notification ==
            Message("UserLeft", user_id, None, Some(user_id), "", 0)
        recipients == Keys(ord, s1.peers)
    IN  send_all(s1, recipients, leave_notification, w)

\* a server that broadcasts every Chat, whatever its target
handle_chat_message_ignoring_target(s, message, ord, w) ==
    send_all(s, Keys(ord, s.peers), message, w)

handle_chat_message(s, message, ord, w) ==
    IF message.target_id # None
    THEN LET target_id == message.target_id[1]
         IN  IF target_id \in DOMAIN s.user_to_token
             THEN send_message(s, s.user_to_token[target_id], message, w)
             ELSE s
    ELSE send_all(s, Keys(ord, s.peers), message, w)

handle_heartbeat_message(s, token) ==
    IF token \in DOMAIN s.peers
    THEN [s EXCEPT !.peers[token].last_heartbeat = s.now]
    ELSE s

\* a server that answers a PeerListRequest to every registered connection
RECURSIVE send_peer_list_to_all(_, _, _, _)
send_peer_list_to_all(s, tokens, ord, w) ==
    IF tokens = <<>> \/ s.result = "Err" THEN s
    ELSE send_peer_list_to_all(send_peer_list(s, Head(tokens), ord, w),
                               Tail(tokens), ord, w)
handle_peer_list_request_to_all(s, token, ord, w) ==
    send_peer_list_to_all(s, Keys(ord, s.peers), ord, w)

handle_peer_list_request(s, token, ord, w) == send_peer_list(s, token, ord, w)

handle_connect_request(s, message, token, w) ==
    IF message.target_id = None THEN s
    ELSE LET target_id == message.target_id[1]
         IN  IF target_id \notin DOMAIN s.user_to_token THEN s
             ELSE LET target_token == s.user_to_token[target_id]
                  IN  IF target_token \notin DOMAIN s.peers THEN s
                      ELSE LET peer_info == s.peers[target_token]
                               content == peer_info.address \o ","
                                          \o ToString(peer_info.port)
                               connect_response ==
                                   Message("ConnectResponse",
                                           peer_info.user_id,
                                           Some(message.sender_id),
                                           Some(content), peer_info.address,
                                           peer_info.port)
                           IN  send_message(s, token, connect_response, w)

handle_message(s, message, token, ord, w) ==
    CASE message.msg_type = "Join" ->
            handle_join_message(s, message, token, ord, w)
      [] message.msg_type = "Leave" ->
            handle_leave_message(s, message, token, ord, w)
      [] message.msg_type = "Chat" -> handle_chat_message(s, message, ord, w)
      [] message.msg_type = "Heartbeat" -> handle_heartbeat_message(s, token)
      [] message.msg_type = "PeerListRequest" ->
            handle_peer_list_request(s, token, ord, w)
      [] message.msg_type = "ConnectRequest" ->
            handle_connect_request(s, message, token, w)
      [] OTHER -> s

broadcast_heartbeat(s, ord, w) ==
    send_all(s, Keys(ord, s.peers),
             Message("Heartbeat", "SERVER", None, None, "", 0), w)


check_peer_timeouts(s) ==
    LET timeout_tokens ==
            {t \in DOMAIN s.peers :
                s.now - s.peers[t].last_heartbeat > PeerTimeoutSecs}
    IN  [s EXCEPT
            !.user_to_token =
                [u \in {x \in DOMAIN @ :
                           \A t \in timeout_tokens : s.peers[t].user_id # x}
                    |-> @[u]],
            !.peers = [t \in (DOMAIN @) \ timeout_tokens |-> @[t]],
            !.streams = @ \ timeout_tokens,
            !.buffers = [t \in (DOMAIN @) \ timeout_tokens |-> @[t]],
            !.interest = [t \in (DOMAIN @) \ timeout_tokens |-> @[t]],
            !.owed = [t \in (DOMAIN @) \ timeout_tokens |-> @[t]],
            !.misordered = @ \ timeout_tokens,
            !.inbound = [t \in (DOMAIN @) \ timeout_tokens |-> @[t]]]

\* ------------------------------------------------------------ environment
\* what one read may deliver: whole frames, one or two of them
FrameChunks ==
    {<<NL>>} \cup {serialize_message(m) : m \in ClientMsgs}
    \cup {serialize_message(b[1]) \o serialize_message(b[2]) : b \in Batches}

\* whole frames, one per read
TimedChunks == {serialize_message(m) : m \in TimedMsgs}

\* what one read may deliver when a frame may be cut in two
ByteChunks ==
    {<<NL>>, <<Payload(ChatMsg("alice", None))>>}
    \cup {serialize_message(m) : m \in IOMsgs}
    \cup {serialize_message(ChatMsg("alice", None))
            \o serialize_message(ChatMsg("alice", None))}

\* whole frames of the crowd, one per read
CrowdChunks == {serialize_message(m) : m \in CrowdMsgs}

BufOK(s) ==
    \A t \in s.streams :
        /\ Len(s.buffers[t]) <= MaxBuf
        /\ Len(s.owed[t]) <= MaxBuf
        /\ Len(s.inbound[t]) <= MaxBuf

Idle == running /\ pending = <<>>

\* ---------------------------------------------------------------- actions
InitProgram ==
    /\ streams = {}
    /\ buffers = <<>>
    /\ interest = <<>>
    /\ peers = <<>>
    /\ user_to_token = <<>>
    /\ next_token = FIRST_PEER
    /\ last_heartbeat = 0
    /\ running = TRUE
    /\ pending = <<>>
    /\ pend_token = SERVER
    /\ now = 0
    /\ owed = <<>>
    /\ misordered = {}
    /\ inbound = <<>>
    /\ last = Step("new", SERVER)
    /\ sent = <<>>
    /\ heard = <<>>
    /\ client = [server_stream |-> None, listen_port |-> PortOf("alice"),
                 streams |-> {}, buffers |-> <<>>, user_id |-> "alice",
                 known_peers |-> <<>>, peer_to_token |-> <<>>,
                 next_peer_token |-> FIRST_PEER_TOKEN,
                 message_receiver |-> <<>>, control_receiver |-> <<>>,
                 last_heartbeat |-> 0]
    /\ run = [pc |-> "loop", reconnect_attempts |-> 0]
    /\ wire = <<>>
    /\ handled = <<>>
    /\ received = [token |-> SERVER, bytes |-> <<>>]
    /\ unparsed = <<>>
    /\ produced = 0
    /\ listener = [pending |-> 0, ready |-> FALSE]

Init ==
    /\ InitProgram
    /\ codec = NoCodec

\* listener.accept() returned a connection
AcceptConnection(limit) ==
    /\ Idle
    /\ next_token < FIRST_PEER + limit
    /\ LET token == next_token
       IN  /\ next_token' = next_token + 1
           /\ streams' = streams \cup {token}
           /\ buffers' = Put(buffers, token, <<>>)
           /\ interest' = Put(interest, token, "R")
           /\ owed' = Put(owed, token, <<>>)
           /\ inbound' = Put(inbound, token, <<>>)
           /\ last' = Step("accept", token)
           /\ sent' = <<>>
           /\ heard' = <<>>
    /\ UNCHANGED <<peers, user_to_token, last_heartbeat, running, pending,
                   pend_token, now, misordered, client_vars, codec>>

\* a client connects, poll reports the listener and the connection is
\* accepted
accept_new_connection(limit) ==
    /\ AcceptConnection(limit)
    /\ UNCHANGED listener

\* stream.read returned Ok(0)
ReadClosed(token) ==
    /\ Install(remove_peer(State, token))
    /\ last' = Step("closed", token)
    /\ UNCHANGED <<codec, listener, client_vars, next_token, running, pending,
                   pend_token, now>>

\* stream.read returned an error other than WouldBlock
ReadError(token) ==
    /\ Install(remove_peer(State, token))
    /\ running' = FALSE
    /\ last' = Step("read_error", token)
    /\ UNCHANGED <<codec, listener, client_vars, next_token, pending,
                   pend_token, now>>

\* stream.read returned Ok(n): the bytes data
ReadData(token, data) ==
    LET parsed == ParseFrames(buffers[token] \o data, <<>>)
        s == [State EXCEPT
                !.buffers[token] = parsed.rest,
                !.inbound[token] = AfterLastDelimiter(@ \o data),
                !.heard = inbound[token] \o data]
    IN  /\ BufOK(s)
        /\ Install(s)
        /\ pending' = parsed.messages
        /\ pend_token' = IF parsed.messages = <<>> THEN SERVER ELSE token
        /\ last' = Step("read", token)
        /\ UNCHANGED <<codec, listener, client_vars, next_token, running, now>>

handle_readable(token, chunks) ==
    /\ Idle
    /\ token \in streams
    /\ \/ ReadClosed(token)
       \/ ReadError(token)
       \/ \E data \in chunks : ReadData(token, data)

\* the loop of try_parse_messages over the parsed messages, one at a time
HandleMessage(outcomes) ==
    /\ running
    /\ pending # <<>>
    /\ \E ord \in Orders(DOMAIN peers \cup {pend_token}),
          w \in Writes(outcomes) :
        LET message == Head(pending)
            s == handle_message(State, message, pend_token, ord, w)
        IN  /\ BufOK(s)
            /\ Install(s)
            /\ running' = (s.result = "Ok")
            /\ pending' = IF s.result = "Ok" THEN Tail(pending) ELSE <<>>
            /\ pend_token' = IF pending' = <<>> THEN SERVER ELSE pend_token
            /\ last' = Step(message.msg_type, pend_token)
            /\ UNCHANGED <<codec, listener, client_vars, next_token, now>>

\* a writable event is delivered only for a registered write interest
handle_writable(token) ==
    /\ Idle
    /\ token \in streams
    /\ interest[token] = "RW"
    /\ buffers[token] # <<>>
    /\ \E n \in (FatalError .. Len(buffers[token])) \ {WouldBlock} :
        LET buffer == buffers[token]
            s == IF n = FatalError
                 THEN [remove_peer(State, token) EXCEPT !.result = "Err"]
                 ELSE IF n < Len(buffer)
                 THEN [Accepted(State, token, SubSeq(buffer, 1, n)) EXCEPT
                          !.buffers[token] = Drop(buffer, n),
                          !.interest[token] = "RW"]
                 ELSE [Accepted(State, token, buffer) EXCEPT
                          !.buffers[token] = <<>>,
                          !.interest[token] = "R"]
        IN  /\ Install(s)
            /\ running' = (s.result = "Ok")
            /\ last' = Step(IF n = FatalError THEN "write_error"
                                              ELSE "writable", token)
            /\ UNCHANGED <<codec, listener, client_vars, next_token, pending,
                           pend_token, now>>

check_heartbeat(outcomes) ==
    /\ Idle
    /\ now - last_heartbeat > HeartbeatSecs
    /\ \E ord \in Orders(DOMAIN peers), w \in Writes(outcomes) :
        LET s1 == broadcast_heartbeat(State, ord, w)
            s == IF s1.result = "Ok"
                 THEN [s1 EXCEPT !.last_heartbeat = now] ELSE s1
        IN  /\ BufOK(s)
            /\ Install(s)
            /\ running' = (s.result = "Ok")
            /\ last' = Step("heartbeat", SERVER)
            /\ UNCHANGED <<codec, listener, client_vars, next_token, pending,
                           pend_token, now>>

CheckPeerTimeouts ==
    /\ Idle
    /\ \E t \in DOMAIN peers : now - peers[t].last_heartbeat > PeerTimeoutSecs
    /\ Install(check_peer_timeouts(State))
    /\ last' = Step("timeout", SERVER)
    /\ UNCHANGED <<codec, listener, client_vars, next_token, running, pending,
                   pend_token, now>>

\* time passes while the loop is blocked in poll
Advance ==
    /\ Idle
    /\ now + ClockStep <= MaxTime
    /\ now' = now + ClockStep
    /\ UNCHANGED <<streams, buffers, interest, peers, user_to_token,
                   next_token, last_heartbeat, running, pending, pend_token,
                   owed, misordered, inbound, last, sent, heard,
                   client_vars, codec, listener>>

\* the loop of start, serving sockets that never block: every write is
\* complete or fails, every read delivers whole frames
Next ==
    \/ accept_new_connection(MaxConns)
    \/ \E token \in AllTokens : handle_readable(token, FrameChunks)
    \/ HandleMessage(CompleteOrFail)

Spec == Init /\ [][Next]_vars

\* the same loop with the clock: heartbeats and the eviction sweep; the
\* replies to clients are written whole, the heartbeat broadcast may fail
NextTimed ==
    \/ accept_new_connection(MaxConns)
    \/ \E token \in AllTokens : handle_readable(token, TimedChunks)
    \/ HandleMessage(Complete)
    \/ check_heartbeat(CompleteOrFail)
    \/ CheckPeerTimeouts
    \/ Advance

SpecTimed == Init /\ [][NextTimed]_vars

\* the loop of start, serving sockets that block: writes may be partial or
\* would block, reads may cut a frame in two
NextIO ==
    \/ accept_new_connection(MaxConns)
    \/ \E token \in AllTokens : handle_readable(token, ByteChunks)
    \/ HandleMessage(AnyWrite)
    \/ \E token \in AllTokens : handle_writable(token)

SpecIO == Init /\ [][NextIO]_vars

\* the loop of start serving one connection more, a crowd of few words
NextCrowd ==
    \/ accept_new_connection(MaxConns + 1)
    \/ \E token \in CrowdTokens : handle_readable(token, CrowdChunks)
    \/ HandleMessage(CompleteOrFail)

SpecCrowd == Init /\ [][NextCrowd]_vars


\* ------------------------------------------------------------------ client
\* src/src/p2p/src/client.rs.  The handlers work on a record k: the fields
\* of P2PClient (self), the result of the call, the write_all calls it made
\* (wire) and the messages it gave to handle_message (handled).
\* MessageTarget
Server == <<"Server">>
Peer(token) == <<"Peer", token>>
PendingMessage(target, message) == [target |-> target, message |-> message]

\* ClientCommand
Stop == <<"Stop">>
ConnectToPeer(peer_id) == <<"ConnectToPeer", peer_id>>
SendDirectMessage(peer_id, content) ==
    <<"SendDirectMessage", peer_id, content>>
SmartSendMessage(target_id, content) ==
    <<"SmartSendMessage", target_id, content>>
ListPeers == <<"ListPeers">>
ShowStatus == <<"ShowStatus">>
RefreshPeers == <<"RefreshPeers">>

\* a Message as the client builds and reads it, with its source mark
Sourced(message, source) ==
    [msg_type |-> message.msg_type, sender_id |-> message.sender_id,
     target_id |-> message.target_id, content |-> message.content,
     sender_peer_address |-> message.sender_peer_address,
     sender_listen_port |-> message.sender_listen_port,
     source |-> source]

\* the result of one stream.write_all(data): Ok, or an error of some kind
\* after the first n bytes of data went to the socket
Ok == [res |-> "Ok", n |-> FrameLen]
Err(kind, n) == [res |-> kind, n |-> n]

Work(c, at) ==
    [self |-> c, now |-> at, result |-> "Ok", wire |-> <<>>,
     handled |-> <<>>, received |-> [token |-> SERVER, bytes |-> <<>>],
     unparsed |-> unparsed]
\* the read of the step delivered data on the link of token
Receive(k, token, data) ==
    LET before == IF token \in DOMAIN k.unparsed THEN k.unparsed[token]
                  ELSE <<>>
    IN  [k EXCEPT
            !.received = [token |-> token, bytes |-> before \o data],
            !.unparsed = Put(@, token, AfterLastDelimiter(before \o data))]
Fail(k, error) == [k EXCEPT !.result = error]

is_connected(c) == c.server_stream # None

queue_message(c, target, message) ==
    [c EXCEPT !.message_receiver = Append(@, PendingMessage(target, message))]

\* a client that routes every chat message through the server
create_server_chat_message(c, target_id, content) ==
    PendingMessage(Server,
        Sourced(Message("Chat", c.user_id, target_id, Some(content),
                        LocalAddr, 0), "Server"))

create_smart_chat_message(c, target_id, content) ==
    IF target_id # None /\ target_id[1] \in DOMAIN c.peer_to_token
    THEN PendingMessage(Peer(c.peer_to_token[target_id[1]]),
            Sourced(Message("Chat", c.user_id, target_id, Some(content),
                            LocalAddr, c.listen_port), "Peer"))
    ELSE PendingMessage(Server,
            Sourced(Message("Chat", c.user_id, target_id, Some(content),
                            LocalAddr, 0), "Server"))

create_chat_message_static(user_id, target_id, content) ==
    PendingMessage(Server,
        Sourced(Message("Chat", user_id, target_id, Some(content),
                        LocalAddr, 0), "Server"))

send_smart_message(c, target_id, content) ==
    LET pending_message == create_smart_chat_message(c, target_id, content)
    IN  [c EXCEPT !.message_receiver = Append(@, pending_message)]

join_message(c) ==
    Sourced(Message("Join", c.user_id, None, None, LocalAddr, c.listen_port),
            "Server")

request_peer_list(c) ==
    queue_message(c, Server,
        Sourced(Message("PeerListRequest", c.user_id, None, None,
                        LocalAddr, 0), "Server"))

\* connected: what TcpStream::connect returned
try_reconnect(k, connected) ==
    IF is_connected(k.self) THEN k
    ELSE IF connected
    THEN LET c == [k.self EXCEPT !.server_stream = Some("server"),
                                 !.buffers = Put(@, SERVER, <<>>)]
         IN  [k EXCEPT !.self = queue_message(c, Server, join_message(c)),
                       !.unparsed = Remove(@, SERVER)]
    ELSE Fail(k, "IoError")

\* a remove_peer that leaves peer_to_token alone
client_remove_peer_stream_only(k, token) ==
    [k EXCEPT
        !.self.streams = @ \ {token},
        !.self.buffers = Remove(@, token),
        !.unparsed = Remove(@, token)]

client_remove_peer(k, token) ==
    [k EXCEPT
        !.self.peer_to_token =
            [p \in {x \in DOMAIN @ : @[x] # token} |-> @[p]],
        !.self.streams = @ \ {token},
        !.self.buffers = Remove(@, token),
        !.unparsed = Remove(@, token)]

\* stream.write_all(data) on the socket of token, for the message taken
\* from position at of the outbox
write_all(k, token, at, message, out) ==
    [k EXCEPT !.wire = Append(@, [to |-> token, at |-> at, msg |-> message,
                                  n |-> out.n, res |-> out.res])]

\* a send that reports the missing server link as an error
send_message_to_server_or_fail(k, at, message, outs) ==
    IF is_connected(k.self)
    THEN LET k1 == write_all(k, SERVER, at, message, outs[1])
         IN  IF outs[1].res = "Ok" THEN k1 ELSE Fail(k1, "IoError")
    ELSE Fail(k, "ConnectionError")

send_message_to_server(k, at, message, outs) ==
    IF is_connected(k.self)
    THEN LET k1 == write_all(k, SERVER, at, message, outs[1])
         IN  IF outs[1].res = "Ok" THEN k1 ELSE Fail(k1, "IoError")
    ELSE k

\* a send that falls back to the server when the peer link is gone
send_message_to_peer_or_server(k, token, at, message, outs) ==
    IF token \in k.self.streams
    THEN LET k1 == write_all(k, token, at, message, outs[1])
         IN  CASE outs[1].res = "Ok" -> k1
               [] outs[1].res = "WouldBlock" ->
                    LET k2 == write_all(k1, token, at, message, outs[2])
                    IN  IF outs[2].res = "Ok" THEN k2
                        ELSE Fail(k2, "IoError")
               [] outs[1].res = "NotConnected" -> Fail(k1, "IoError")
               [] outs[1].res \in {"BrokenPipe", "ConnectionReset"} ->
                    Fail(client_remove_peer(k1, token), "IoError")
               [] OTHER -> Fail(k1, "IoError")
    ELSE send_message_to_server(k, at, message, outs)

send_message_to_peer(k, token, at, message, outs) ==
    IF token \in k.self.streams
    THEN LET k1 == write_all(k, token, at, message, outs[1])
         IN  CASE outs[1].res = "Ok" -> k1
               [] outs[1].res = "WouldBlock" ->
                    LET k2 == write_all(k1, token, at, message, outs[2])
                    IN  IF outs[2].res = "Ok" THEN k2
                        ELSE Fail(k2, "IoError")
               [] outs[1].res = "NotConnected" -> Fail(k1, "IoError")
               [] outs[1].res \in {"BrokenPipe", "ConnectionReset"} ->
                    Fail(client_remove_peer(k1, token), "IoError")
               [] OTHER -> Fail(k1, "IoError")
    ELSE Fail(k, "PeerNotFound")

\* serde_json::from_str::<Vec<(String, String, u16)>>(content), for the
\* lists a server can send: the list whose JSON text the content is
PeerLists ==
    LET tuples == {PeerInfo(u, LocalAddr, PortOf(u), 0) :
                      u \in Users \cup {"carol"}}
    IN  {<<>>} \cup {<<x>> : x \in tuples}
        \cup {<<x, y>> : x \in tuples, y \in tuples}
ParsePeerList(content) ==
    IF \E l \in PeerLists : PeerListJson(l) = content
    THEN Some(CHOOSE l \in PeerLists : PeerListJson(l) = content)
    ELSE None

\* a loop over the peer list that inserts every tuple
RECURSIVE insert_peers_all(_, _, _)
insert_peers_all(c, peer_list, at) ==
    IF peer_list = <<>> THEN c
    ELSE LET t == Head(peer_list)
         IN  insert_peers_all(
                [c EXCEPT !.known_peers =
                    Put(@, t.user_id,
                        PeerInfo(t.user_id, t.address, t.port, at))],
                Tail(peer_list), at)

\* for (user_id, address, port) in peer_list { .. }
RECURSIVE insert_peers(_, _, _)
insert_peers(c, peer_list, at) ==
    IF peer_list = <<>> THEN c
    ELSE LET t == Head(peer_list)
         IN  insert_peers(
                IF t.user_id # c.user_id
                THEN [c EXCEPT !.known_peers =
                        Put(@, t.user_id,
                            PeerInfo(t.user_id, t.address, t.port, at))]
                ELSE c,
                Tail(peer_list), at)

client_handle_message(k, message) ==
    LET k1 == [k EXCEPT !.handled = Append(@, message)]
    IN  CASE message.msg_type = "Chat" -> k1
          [] message.msg_type = "PeerList" ->
                IF message.content = None THEN k1
                ELSE LET peer_list == ParsePeerList(message.content[1])
                     IN  IF peer_list = None THEN k1
                         ELSE [k1 EXCEPT !.self =
                                 insert_peers(@, peer_list[1], k.now)]
          [] OTHER -> k1

RECURSIVE client_handle_messages(_, _)
client_handle_messages(k, messages) ==
    IF messages = <<>> \/ k.result # "Ok" THEN k
    ELSE client_handle_messages(client_handle_message(k, Head(messages)),
                                Tail(messages))

client_try_parse_messages(k, token) ==
    IF token \notin DOMAIN k.self.buffers THEN k
    ELSE LET parsed == ParseFrames(k.self.buffers[token], <<>>)
             source == IF token = SERVER THEN "Server" ELSE "Peer"
             messages == [i \in 1..Len(parsed.messages) |->
                            Sourced(parsed.messages[i], source)]
         IN  client_handle_messages(
                [k EXCEPT !.self.buffers[token] = parsed.rest], messages)

\* what stream.read returned: event.kind is "eof" for Ok(0), "data" for
\* Ok(n) with the bytes event.data, "reset" for ConnectionReset,
\* ConnectionAborted or BrokenPipe, "error" for any other error
Event(token, kind, data) ==
    [token |-> token, kind |-> kind, data |-> data, pending |-> 0]
\* the listener is ready with n connections pending
Ready(kind, n) ==
    [token |-> LISTENER, kind |-> kind, data |-> <<>>, pending |-> n]

handle_server_event(k, event) ==
    IF ~is_connected(k.self) THEN k
    ELSE CASE event.kind \in {"eof", "reset"} ->
                [k EXCEPT !.self.server_stream = None,
                          !.self.buffers = Remove(@, SERVER),
                          !.unparsed = Remove(@, SERVER)]
           [] event.kind = "data" ->
                client_try_parse_messages(
                    IF SERVER \in DOMAIN k.self.buffers
                    THEN [Receive(k, SERVER, event.data) EXCEPT
                            !.self.buffers[SERVER] = @ \o event.data]
                    ELSE Receive(k, SERVER, event.data),
                    SERVER)
           [] OTHER -> k

\* an accept loop that hands out the lowest token no open stream holds
RECURSIVE accept_peers_lowest_free(_, _)
accept_peers_lowest_free(k, n) ==
    IF n = 0 THEN k
    ELSE LET peer_token ==
                CHOOSE t \in FIRST_PEER_TOKEN..k.self.next_peer_token :
                   /\ t \notin k.self.streams
                   /\ \A u \in FIRST_PEER_TOKEN..(t - 1) : u \in k.self.streams
         IN  accept_peers_lowest_free(
                [k EXCEPT !.self.next_peer_token =
                             IF peer_token = @ THEN @ + 1 ELSE @,
                          !.self.streams = @ \cup {peer_token},
                          !.self.buffers = Put(@, peer_token, <<>>)],
                n - 1)

\* listener.accept() until it would block: event.pending connections are
\* waiting; event.kind is "accept_error" when the accept after them fails
RECURSIVE accept_peers(_, _)
accept_peers(k, n) ==
    IF n = 0 THEN k
    ELSE LET peer_token == k.self.next_peer_token
         IN  accept_peers(
                [k EXCEPT !.self.next_peer_token = peer_token + 1,
                          !.self.streams = @ \cup {peer_token},
                          !.self.buffers = Put(@, peer_token, <<>>)],
                n - 1)
handle_listener_event(k, event) ==
    LET k1 == accept_peers(k, event.pending)
    IN  IF event.kind = "accept_error" THEN Fail(k1, "IoError") ELSE k1

client_handle_readable(k, event) ==
    LET token == event.token
    IN  IF token \notin k.self.streams THEN k
        ELSE CASE event.kind = "eof" -> client_remove_peer(k, token)
               [] event.kind = "data" ->
                    client_try_parse_messages(
                        IF token \in DOMAIN k.self.buffers
                        THEN [Receive(k, token, event.data) EXCEPT
                                !.self.buffers[token] = @ \o event.data]
                        ELSE Receive(k, token, event.data),
                        token)
               [] event.kind \in {"reset", "error"} ->
                    client_remove_peer(k, token)
               [] OTHER -> k

\* while let Ok(pending_message) = self.message_receiver.try_recv() { .. }
RECURSIVE process_pending_messages(_, _, _)
process_pending_messages(k, at, outs) ==
    IF k.self.message_receiver = <<>> \/ k.result # "Ok" THEN k
    ELSE LET pending_message == Head(k.self.message_receiver)
             k1 == [k EXCEPT !.self.message_receiver = Tail(@)]
             k2 == IF pending_message.target = Server
                   THEN send_message_to_server(k1, at,
                            pending_message.message, outs[at])
                   ELSE send_message_to_peer(k1, pending_message.target[2],
                            at, pending_message.message, outs[at])
         IN  process_pending_messages(k2, at + 1, outs)

process_events(k, event, outs) ==
    LET k1 == process_pending_messages(k, 1, outs)
    IN  IF k1.result # "Ok" THEN k1
        ELSE CASE event.kind = "none" -> k1
               [] event.token = SERVER -> handle_server_event(k1, event)
               [] event.token = LISTENER -> handle_listener_event(k1, event)
               [] OTHER -> client_handle_readable(k1, event)

\* a connect_to_peer without the check for an existing link
connect_to_peer_unchecked(k, peer_id, connected) ==
    IF peer_id = k.self.user_id THEN Fail(k, "ConnectionError")
    ELSE IF peer_id \in DOMAIN k.self.known_peers
    THEN IF connected
         THEN LET peer_token == k.self.next_peer_token
              IN  [k EXCEPT
                     !.self.next_peer_token = peer_token + 1,
                     !.self.streams = @ \cup {peer_token},
                     !.self.buffers = Put(@, peer_token, <<>>),
                     !.self.peer_to_token = Put(@, peer_id, peer_token)]
         ELSE Fail(k, "IoError")
    ELSE Fail(k, "PeerNotFound")

\* connected: what TcpStream::connect(peer_addr) returned
connect_to_peer(k, peer_id, connected) ==
    IF peer_id = k.self.user_id THEN Fail(k, "ConnectionError")
    ELSE IF peer_id \in DOMAIN k.self.peer_to_token THEN k
    ELSE IF peer_id \in DOMAIN k.self.known_peers
    THEN IF connected
         THEN LET peer_token == k.self.next_peer_token
              IN  [k EXCEPT
                     !.self.next_peer_token = peer_token + 1,
                     !.self.streams = @ \cup {peer_token},
                     !.self.buffers = Put(@, peer_token, <<>>),
                     !.self.peer_to_token = Put(@, peer_id, peer_token)]
         ELSE Fail(k, "IoError")
    ELSE Fail(k, "PeerNotFound")

\* for attempt in 1..=3 { send_message_to_peer(..) }: at most three sends,
\* the first that succeeds ends the loop
RECURSIVE send_p2p_message_with_retry(_, _, _, _, _)
send_p2p_message_with_retry(k, peer_token, message, attempt, outs) ==
    LET k1 == send_message_to_peer([k EXCEPT !.result = "Ok"], peer_token,
                                   0, message, outs[attempt])
    IN  IF k1.result = "Ok" \/ attempt = 3 THEN k1
        ELSE send_p2p_message_with_retry(k1, peer_token, message,
                                         attempt + 1, outs)

send_direct_message(k, peer_id, content, connected, outs) ==
    IF peer_id = k.self.user_id THEN Fail(k, "ConnectionError")
    ELSE LET k1 == IF peer_id \in DOMAIN k.self.peer_to_token THEN k
                   ELSE connect_to_peer(k, peer_id, connected)
             message ==
                Sourced(Message("Chat", k.self.user_id, Some(peer_id),
                                Some(content), LocalAddr, 0), "Peer")
         IN  IF k1.result # "Ok" THEN k1
             ELSE send_p2p_message_with_retry(
                     k1, k1.self.peer_to_token[peer_id], message, 1, outs)

\* a heartbeat check that does not look at the server link
check_and_send_heartbeat_unconnected(c, at) ==
    IF at - c.last_heartbeat > ClientHeartbeatSecs
    THEN [queue_message(c, Server,
              Sourced(Message("Heartbeat", c.user_id, None, None, LocalAddr,
                              c.listen_port), "Server"))
            EXCEPT !.last_heartbeat = at]
    ELSE c

check_and_send_heartbeat(c, at) ==
    IF at - c.last_heartbeat > ClientHeartbeatSecs /\ is_connected(c)
    THEN [queue_message(c, Server,
              Sourced(Message("Heartbeat", c.user_id, None, None, LocalAddr,
                              c.listen_port), "Server"))
            EXCEPT !.last_heartbeat = at]
    ELSE c

\* a loop that never leaves on a command
breaks_never(command) == FALSE
\* the arm of run's match that leaves the loop: ControlCommand::Stop
breaks(command) == command = Stop

\* the match on self.control_receiver.try_recv() of run, for a command
handle_command(k, command, connected, outs) ==
    CASE command[1] = "ConnectToPeer" ->
            connect_to_peer(k, command[2], connected)
      [] command[1] = "SendDirectMessage" ->
            send_direct_message(k, command[2], command[3], connected, outs)
      [] command[1] = "SmartSendMessage" ->
            [k EXCEPT !.self = send_smart_message(@, command[2], command[3])]
      [] command[1] = "RefreshPeers" ->
            [k EXCEPT !.self = request_peer_list(@)]
      [] OTHER -> k

\* ---------------------------------------------------- client environment
\* what the server link may deliver: the peer list with bob, bob's address
\* in answer to a ConnectRequest, a chat line of bob
BobInfo == PeerInfo("bob", LocalAddr, PortOf("bob"), 0)
AliceInfo == PeerInfo("alice", LocalAddr, PortOf("alice"), 0)
ServerFrames ==
    {Sourced(Message("PeerList", "SERVER", None,
                     Some(PeerListJson(<<AliceInfo, BobInfo>>)), "", 0),
             "Server"),
     Sourced(Message("ConnectResponse", "bob", Some("alice"),
                     Some(LocalAddr \o "," \o ToString(PortOf("bob"))),
                     LocalAddr, PortOf("bob")), "Server"),
     Sourced(ChatMsg("bob", None), "Server")}
\* what a peer link may deliver: a chat line of bob for alice
PeerFrames == {Sourced(ChatMsg("bob", Some("alice")), "Peer")}

\* the readiness events of one poll: none, or one of the open sockets
ClientEvents ==
    {Event(SERVER, "none", <<>>)}
    \cup {Event(SERVER, kind, <<>>) : kind \in {"eof", "error"}}
    \cup {Event(SERVER, "data", serialize_message(m)) : m \in ServerFrames}
    \cup {Event(t, "eof", <<>>) : t \in client.streams}
    \cup {Event(t, "data", serialize_message(m)) :
            t \in client.streams, m \in PeerFrames}

\* the results of the sends of one step: per send of the step, the result
\* of its write_all and of the write_all repeated after WouldBlock
SendOutcomes(outcomes, sends) == [1..sends -> outcomes]
Reliable == {<<Ok, Ok>>}
Breaking == {<<Ok, Ok>>, <<Err("BrokenPipe", 0), Ok>>}

\* what the producers of this scenario hand to the client: chat lines for
\* everybody and for bob, a request to link with bob, the order to stop
ProducedMessages ==
    {create_chat_message_static("alice", None, "hi")}
Commands ==
    {Stop, ConnectToPeer("bob"), SmartSendMessage(Some("bob"), "hi"),
     SmartSendMessage(None, "hi")}

ClientOK(c) ==
    /\ Len(c.message_receiver) <= MaxQueued
    /\ Len(c.control_receiver) <= MaxQueued
    /\ c.next_peer_token <= FIRST_PEER_TOKEN + MaxConns
    /\ \A t \in DOMAIN c.buffers : Len(c.buffers[t]) <= MaxBuf

\* --------------------------------------------------------- client actions
\* run, lines 314-323: the link is down and attempts are left
TryReconnect ==
    /\ run.pc = "loop"
    /\ ~is_connected(client)
    /\ run.reconnect_attempts < max_reconnect_attempts
    /\ \E connected \in BOOLEAN :
        LET k == try_reconnect(Work(client, now), connected)
        IN  /\ ClientOK(k.self)
            /\ client' = k.self
            /\ run' = IF k.result = "Ok"
                      THEN [run EXCEPT !.pc = "poll",
                                       !.reconnect_attempts = 0]
                      ELSE [run EXCEPT !.reconnect_attempts = @ + 1]
            /\ wire' = k.wire
            /\ handled' = k.handled
            /\ received' = k.received
            /\ unparsed' = k.unparsed
    /\ UNCHANGED <<codec, server_vars, produced>>

\* run, lines 326-340: poll, then process_events; an error of either goes
\* back to the head of the loop
PollAndProcess(events, outcomes) ==
    /\ \/ run.pc = "poll"
       \/ /\ run.pc = "loop"
          /\ \/ is_connected(client)
             \/ run.reconnect_attempts >= max_reconnect_attempts
    /\ \/ \E event \in events,
             outs \in SendOutcomes(outcomes, Len(client.message_receiver)) :
            LET k == process_events(Work(client, now), event, outs)
            IN  /\ ClientOK(k.self)
                /\ client' = k.self
                /\ run' = [run EXCEPT
                             !.pc = IF k.result = "Ok" THEN "control"
                                                       ELSE "loop"]
                /\ wire' = k.wire
                /\ handled' = k.handled
                /\ received' = k.received
                /\ unparsed' = k.unparsed
       \/ /\ run' = [run EXCEPT !.pc = "loop"]
          /\ wire' = <<>>
          /\ handled' = <<>>
          /\ received' = [token |-> SERVER, bytes |-> <<>>]
          /\ UNCHANGED <<client, unparsed>>
    /\ UNCHANGED <<codec, server_vars, produced>>

\* run, lines 343-393: the heartbeat, one control command, the end of the
\* degraded tick
CheckControl(outcomes) ==
    /\ run.pc = "control"
    /\ \E connected \in BOOLEAN,
          outs \in SendOutcomes(outcomes,
                     IF /\ client.control_receiver # <<>>
                        /\ Head(client.control_receiver)[1]
                              = "SendDirectMessage"
                     THEN 3 ELSE 0) :
        LET c == check_and_send_heartbeat(client, now)
            command == Head(c.control_receiver)
            k == IF c.control_receiver = <<>> THEN Work(c, now)
                 ELSE handle_command(
                        Work([c EXCEPT !.control_receiver = Tail(@)], now),
                        command, connected, outs)
            stop == c.control_receiver # <<>> /\ breaks(command)
        IN  /\ ClientOK(k.self)
            /\ client' = k.self
            /\ run' = IF stop THEN [run EXCEPT !.pc = "returned"]
                      ELSE [pc |-> "loop",
                            reconnect_attempts |->
                              IF run.reconnect_attempts
                                    >= max_reconnect_attempts
                              THEN 0 ELSE run.reconnect_attempts]
            /\ wire' = k.wire
            /\ handled' = k.handled
            /\ received' = k.received
            /\ unparsed' = k.unparsed
    /\ UNCHANGED <<codec, server_vars, produced>>

\* another thread sends on a clone of message_sender
Produce ==
    /\ \E pending_message \in ProducedMessages :
        client' = [client EXCEPT
                      !.message_receiver = Append(@, pending_message)]
    /\ ClientOK(client')
    /\ produced < MaxProduced
    /\ produced' = produced + 1
    /\ UNCHANGED <<codec, server_vars, run, wire, handled, received, unparsed>>

\* another thread sends on a clone of control_sender
Command ==
    /\ \E command \in Commands :
        client' = [client EXCEPT !.control_receiver = Append(@, command)]
    /\ ClientOK(client')
    /\ produced < MaxProduced
    /\ produced' = produced + 1
    /\ UNCHANGED <<codec, server_vars, run, wire, handled, received, unparsed>>

NextClient ==
    \/ TryReconnect
    \/ PollAndProcess(ClientEvents, Breaking)
    \/ CheckControl(Breaking)
    \/ Produce
    \/ Command

SpecClient == Init /\ [][NextClient]_vars

\* ------------------------------------------------------ the listener
\* a client connects while the server is blocked in poll: the connection
\* waits at the listener, which is registered edge-triggered, so that the
\* next poll reports the listener
Connect ==
    /\ Idle
    /\ next_token + listener.pending < FIRST_PEER + MaxConns
    /\ listener' = [pending |-> listener.pending + 1, ready |-> TRUE]
    /\ UNCHANGED <<streams, buffers, interest, peers, user_to_token,
                   next_token, last_heartbeat, running, pending, pend_token,
                   now, owed, misordered, inbound, last, sent, heard,
                   client_vars, codec>>

\* poll reported the listener: start calls accept_new_connection, which
\* calls listener.accept() once; the event is not reported again before
\* another client connects
ListenerEvent ==
    /\ listener.ready
    /\ listener.pending > 0
    /\ AcceptConnection(MaxConns)
    /\ listener' = [pending |-> listener.pending - 1, ready |-> FALSE]

NextAccept ==
    \/ Connect
    \/ ListenerEvent
    \/ \E token \in AllTokens : handle_readable(token, TimedChunks)
    \/ HandleMessage(Complete)

SpecAccept == Init /\ [][NextAccept]_vars

\* ------------------------------------------------------- peer links
\* the client learns of bob, bob connects to the listener of the client or
\* the client connects to bob, bob writes a chat line on a link, and the
\* server announces that bob left
LinkEvents ==
    {Event(SERVER, "data", serialize_message(m)) :
        m \in {Sourced(Message("PeerList", "SERVER", None,
                               Some(PeerListJson(<<AliceInfo, BobInfo>>)),
                               "", 0), "Server"),
               Sourced(Message("UserLeft", "bob", None, Some("bob"), "", 0),
                       "Server")}}
    \cup {Ready("accept", 1)}
    \cup {Event(t, "data", serialize_message(m)) :
            t \in client.streams, m \in PeerFrames}

NextLinks ==
    \/ TryReconnect
    \/ PollAndProcess(LinkEvents, Reliable)
    \/ CheckControl(Reliable)
    \/ Command

SpecLinks == Init /\ [][NextLinks]_vars

\* ------------------------------------------------------- heartbeats
\* the clock of the client passes one heartbeat interval
Elapse ==
    /\ now + ClientHeartbeatSecs <= MaxTime
    /\ now' = now + ClientHeartbeatSecs
    /\ UNCHANGED <<streams, buffers, interest, peers, user_to_token,
                   next_token, last_heartbeat, running, pending, pend_token,
                   owed, misordered, inbound, last, sent, heard,
                   client_vars, codec, listener>>

\* the server link is silent or is closed by the server
BeatEvents == {Event(SERVER, "none", <<>>), Event(SERVER, "eof", <<>>)}

NextBeat ==
    \/ Elapse
    \/ TryReconnect
    \/ PollAndProcess(BeatEvents, Breaking)
    \/ CheckControl(Breaking)
    \/ Command

SpecBeat == Init /\ [][NextBeat]_vars

\* ------------------------------------------------------- leaving the loop
\* a thread that holds a clone of message_sender enqueues a chat line for a
\* peer token that has no stream; it may do so for ever
ProduceStale ==
    /\ \E token \in FIRST_PEER_TOKEN..(FIRST_PEER_TOKEN + MaxConns) :
          /\ token \notin client.streams
          /\ client' = [client EXCEPT !.message_receiver =
                Append(@, PendingMessage(Peer(token),
                             Sourced(ChatMsg("alice", Some("bob")), "Peer")))]
    /\ ClientOK(client')
    /\ UNCHANGED <<codec, server_vars, run, wire, handled, received, unparsed,
                   produced>>

\* a tick whose poll returns Ok: the outbox is drained and no socket is
\* ready
Tick ==
    /\ PollAndProcess({Event(SERVER, "none", <<>>)}, Reliable)
    /\ client' # client \/ run'.pc = "control"

NextStop ==
    \/ TryReconnect
    \/ Tick
    \/ CheckControl(Reliable)
    \/ Command
    \/ ProduceStale

\* the thread of run keeps running: every part of the loop that can be
\* taken is taken; nothing is assumed of the other threads
SpecStop ==
    /\ Init
    /\ [][NextStop]_vars
    /\ WF_vars(TryReconnect)
    /\ WF_vars(Tick)
    /\ WF_vars(CheckControl(Reliable))

\* ------------------------------------------------------- two peers
\* the client learns of bob and carol, is told to connect to either and to
\* write to bob; the peers close their links or connect themselves
CarolInfo == PeerInfo("carol", LocalAddr, PortOf("carol"), 0)
PairEvents ==
    {Event(SERVER, "data",
           serialize_message(
              Sourced(Message("PeerList", "SERVER", None,
                              Some(PeerListJson(<<BobInfo, CarolInfo>>)),
                              "", 0), "Server"))),
     Ready("accept", 1)}
    \cup {Event(t, "eof", <<>>) : t \in client.streams}

\* another thread sends on a clone of control_sender
CommandPair ==
    /\ \E command \in {ConnectToPeer("bob"), ConnectToPeer("carol"),
                        SmartSendMessage(Some("bob"), "hi")} :
        client' = [client EXCEPT !.control_receiver = Append(@, command)]
    /\ ClientOK(client')
    /\ produced < MaxProduced
    /\ produced' = produced + 1
    /\ UNCHANGED <<codec, server_vars, run, wire, handled, received, unparsed>>

NextPairs ==
    \/ TryReconnect
    \/ PollAndProcess(PairEvents, Breaking)
    \/ CheckControl(Breaking)
    \/ CommandPair

SpecPairs == Init /\ [][NextPairs]_vars

\* ------------------------------------------------ connection identities
\* server and client hand out tokens: clients connect to the server, join
\* and go; peers connect to the listener of the client, one or several
\* between two polls, the client connects to bob, links are closed
TokenChunks == {serialize_message(JoinMsg("alice"))}
TokenEvents ==
    {Event(SERVER, "none", <<>>), Event(SERVER, "eof", <<>>),
     Event(SERVER, "data",
           serialize_message(
              Sourced(Message("PeerList", "SERVER", None,
                              Some(PeerListJson(<<AliceInfo, BobInfo>>)),
                              "", 0), "Server")))}
    \cup {Ready("accept", n) : n \in 1..MaxConns}
    \cup {Ready("accept_error", 1)}
    \cup {Event(t, "eof", <<>>) : t \in client.streams}

\* the two programs share no variable here, so their steps commute: each is
\* run from the start of the other
ServerNew == next_token = FIRST_PEER /\ running
ClientNew ==
    /\ produced = 0
    /\ run = [pc |-> "loop", reconnect_attempts |-> 0]
    /\ client.server_stream = None

NextTokens ==
    \/ ClientNew /\ accept_new_connection(MaxConns)
    \/ ClientNew /\ \E token \in AllTokens :
                       handle_readable(token, TokenChunks)
    \/ ClientNew /\ HandleMessage(Complete)
    \/ ServerNew /\ TryReconnect
    \/ ServerNew /\ PollAndProcess(TokenEvents, Reliable)
    \/ ServerNew /\ CheckControl(Reliable)
    \/ ServerNew /\ Command

SpecTokens == Init /\ [][NextTokens]_vars

\* --------------------------------------------------- blocking writes
\* write_all on a non-blocking socket whose send buffer is full: it fails
\* with WouldBlock before any byte, or after a part of the frame, was
\* written; the repeated write_all succeeds or fails the same way
Blocking ==
    {<<Ok, Ok>>,
     <<Err("WouldBlock", 0), Ok>>,
     <<Err("WouldBlock", 1), Ok>>,
     <<Err("WouldBlock", 0), Err("WouldBlock", 0)>>,
     <<Err("BrokenPipe", 0), Ok>>}

NextSends ==
    \/ TryReconnect
    \/ PollAndProcess(ClientEvents, Blocking)
    \/ CheckControl(Blocking)
    \/ Produce
    \/ Command

SpecSends == Init /\ [][NextSends]_vars

\* ------------------------------------------------- malformed frames
\* what a read of the server may deliver when a client sends bytes that do
\* not decode: a malformed frame before two good ones, an empty frame
\* before a good one, a good frame before the start of a malformed one, the
\* end of a malformed frame, a good frame
JunkChunks ==
    {<<Junk, NL>> \o serialize_message(JoinMsg("alice"))
                  \o serialize_message(PeerListRequestMsg("alice")),
     <<NL>> \o serialize_message(LeaveMsg("alice")),
     serialize_message(JoinMsg("alice")) \o <<Junk>>,
     <<Junk, NL>>,
     serialize_message(ChatMsg("alice", None))}

\* what a read of the client may deliver on its server link: a malformed
\* frame before two good ones, the first part of a frame, the delimiter of
\* a frame with the frame after it, the end of a malformed frame
JunkEvents ==
    LET peer_list == CHOOSE f \in ServerFrames : f.msg_type = "PeerList"
        chat == CHOOSE f \in ServerFrames : f.msg_type = "Chat"
    IN  {Event(SERVER, "none", <<>>),
         Event(SERVER, "data", <<Junk, NL>> \o serialize_message(peer_list)
                                   \o serialize_message(chat)),
         Event(SERVER, "data", <<Payload(peer_list)>>),
         Event(SERVER, "data", <<NL>> \o serialize_message(chat)),
         Event(SERVER, "data", <<Junk, NL>>)}

\* the server with one connection and the client with its server link,
\* each reading such bytes; no socket blocks
NextFrames ==
    \/ accept_new_connection(1)
    \/ \E token \in AllTokens : handle_readable(token, JunkChunks)
    \/ HandleMessage(CompleteOrFail)
    \/ TryReconnect
    \/ PollAndProcess(JunkEvents, Reliable)
    \/ CheckControl(Reliable)

SpecFrames == Init /\ [][NextFrames]_vars


\* ------------------------------------------------------------- JSON text
\* The text of a frame, symbol by symbol.  A symbol is one character of a
\* string value, one digit or one punctuation mark; the names of the fields
\* and of the enum variants, and null, are one symbol each.
QuoteMark == "\""
Backslash == "\\"
Newline == "\n"
Alphabet == {"n", QuoteMark, Backslash, Newline}
Strings == UNION {[1..n -> Alphabet] : n \in 0..MaxStr}
OptionStrings == {None} \cup {Some(s) : s \in Strings}
MessageTypes ==
    {"Join", "Chat", "Leave", "PeerList", "PeerListRequest",
     "ConnectRequest", "ConnectResponse", "Heartbeat", "UserJoined",
     "UserLeft"}
MessageSources == {"Server", "Peer"}
Digits == <<"0", "1", "2", "3", "4", "5", "6", "7", "8", "9">>

\* a string value written as it is, without escapes
format_str_contents(value) == value
\* serde_json's format_escaped_str_contents
RECURSIVE format_escaped_str_contents(_)
format_escaped_str_contents(value) ==
    IF value = <<>> THEN <<>>
    ELSE (CASE Head(value) = QuoteMark -> <<Backslash, QuoteMark>>
            [] Head(value) = Backslash -> <<Backslash, Backslash>>
            [] Head(value) = Newline -> <<Backslash, "n">>
            [] OTHER -> <<Head(value)>>)
         \o format_escaped_str_contents(Tail(value))

json_str(value) ==
    <<QuoteMark>> \o format_escaped_str_contents(value) \o <<QuoteMark>>
json_option(value) == IF value = None THEN <<"null">> ELSE json_str(value[1])
json_variant(name) == <<QuoteMark, name, QuoteMark>>
RECURSIVE json_number(_)
json_number(n) ==
    IF n < 10 THEN <<Digits[n + 1]>>
    ELSE json_number(n \div 10) \o <<Digits[(n % 10) + 1]>>
key(name) == <<QuoteMark, name, QuoteMark, ":">>

\* serde_json::to_string(message), with the fields in the order of the
\* struct; SystemTime is written as its two offsets from the epoch
to_string(message) ==
    <<"{">> \o key("msg_type") \o json_variant(message.msg_type)
    \o <<",">> \o key("sender_id") \o json_str(message.sender_id)
    \o <<",">> \o key("target_id") \o json_option(message.target_id)
    \o <<",">> \o key("content") \o json_option(message.content)
    \o <<",">> \o key("sender_peer_address")
    \o json_str(message.sender_peer_address)
    \o <<",">> \o key("sender_listen_port")
    \o json_number(message.sender_listen_port)
    \o <<",">> \o key("timestamp") \o <<"{">>
    \o key("secs_since_epoch")
    \o json_number(message.timestamp.secs_since_epoch)
    \o <<",">> \o key("nanos_since_epoch")
    \o json_number(message.timestamp.nanos_since_epoch)
    \o <<"}">>
    \o <<",">> \o key("source") \o json_variant(message.source)
    \o <<"}">>

\* serialize_message on the text: the JSON text and the delimiter
serialize_bytes(message) == to_string(message) \o <<Newline>>

\* the result of a parser: the value and the position behind it
Bad == [ok |-> FALSE, value |-> <<>>, next |-> 0]
Good(value, next) == [ok |-> TRUE, value |-> value, next |-> next]
Has(text, pos, symbols) ==
    /\ pos > 0
    /\ pos + Len(symbols) - 1 <= Len(text)
    /\ SubSeq(text, pos, pos + Len(symbols) - 1) = symbols
\* the position behind the symbols, 0 if they are not at pos
After(text, pos, symbols) ==
    IF Has(text, pos, symbols) THEN pos + Len(symbols) ELSE 0

\* a string value behind its opening quote; a raw control character in a
\* string is an error
RECURSIVE parse_str(_, _, _)
parse_str(text, pos, scratch) ==
    IF pos > Len(text) THEN Bad
    ELSE IF text[pos] = QuoteMark THEN Good(scratch, pos + 1)
    ELSE IF text[pos] = Newline THEN Bad
    ELSE IF text[pos] = Backslash
    THEN IF pos + 1 > Len(text) THEN Bad
         ELSE CASE text[pos + 1] = QuoteMark ->
                     parse_str(text, pos + 2, Append(scratch, QuoteMark))
                [] text[pos + 1] = Backslash ->
                     parse_str(text, pos + 2, Append(scratch, Backslash))
                [] text[pos + 1] = "n" ->
                     parse_str(text, pos + 2, Append(scratch, Newline))
                [] OTHER -> Bad
    ELSE parse_str(text, pos + 1, Append(scratch, text[pos]))

deserialize_string(text, pos) ==
    IF Has(text, pos, <<QuoteMark>>) THEN parse_str(text, pos + 1, <<>>)
    ELSE Bad
deserialize_option(text, pos) ==
    IF Has(text, pos, <<"null">>) THEN Good(None, pos + 1)
    ELSE LET r == deserialize_string(text, pos)
         IN  IF r.ok THEN Good(Some(r.value), r.next) ELSE Bad
deserialize_variant(text, pos, variants) ==
    IF /\ Has(text, pos, <<QuoteMark>>)
       /\ pos + 2 <= Len(text)
       /\ text[pos + 1] \in variants
       /\ text[pos + 2] = QuoteMark
    THEN Good(text[pos + 1], pos + 3)
    ELSE Bad

IsDigit(symbol) == \E d \in DOMAIN Digits : Digits[d] = symbol
DigitValue(symbol) == (CHOOSE d \in DOMAIN Digits : Digits[d] = symbol) - 1
RECURSIVE parse_digits(_, _, _)
parse_digits(text, pos, value) ==
    IF pos <= Len(text) /\ IsDigit(text[pos])
    THEN parse_digits(text, pos + 1, value * 10 + DigitValue(text[pos]))
    ELSE Good(value, pos)
\* an unsigned number: digits, without a leading zero
deserialize_number(text, pos) ==
    IF pos < 1 \/ pos > Len(text) \/ ~IsDigit(text[pos]) THEN Bad
    ELSE IF /\ text[pos] = "0"
            /\ pos + 1 <= Len(text)
            /\ IsDigit(text[pos + 1])
    THEN Bad
    ELSE parse_digits(text, pos, 0)

RECURSIVE IsWhitespace(_, _)
IsWhitespace(text, pos) ==
    \/ pos > Len(text)
    \/ /\ text[pos] \in {Newline, " "}
       /\ IsWhitespace(text, pos + 1)

\* the members of a Message in the order of the struct: the symbols in
\* front of the value, and the kind of the value
Members ==
    <<[before |-> <<"{">> \o key("msg_type"), kind |-> "type"],
      [before |-> <<",">> \o key("sender_id"), kind |-> "string"],
      [before |-> <<",">> \o key("target_id"), kind |-> "option"],
      [before |-> <<",">> \o key("content"), kind |-> "option"],
      [before |-> <<",">> \o key("sender_peer_address"), kind |-> "string"],
      [before |-> <<",">> \o key("sender_listen_port"), kind |-> "u16"],
      [before |-> <<",">> \o key("timestamp") \o <<"{">>
                  \o key("secs_since_epoch"), kind |-> "number"],
      [before |-> <<",">> \o key("nanos_since_epoch"), kind |-> "number"],
      [before |-> <<"}", ",">> \o key("source"), kind |-> "source"]>>

deserialize_value(text, pos, kind) ==
    CASE kind = "type" -> deserialize_variant(text, pos, MessageTypes)
      [] kind = "source" -> deserialize_variant(text, pos, MessageSources)
      [] kind = "string" -> deserialize_string(text, pos)
      [] kind = "option" -> deserialize_option(text, pos)
      [] kind = "u16" ->
            LET r == deserialize_number(text, pos)
            IN  IF r.ok /\ r.value <= U16_MAX THEN r ELSE Bad
      [] OTHER -> deserialize_number(text, pos)

\* one member read behind the position of st; a missing source member has
\* the default of serde, MessageSource::Server
deserialize_member(text, member, st) ==
    IF /\ member.kind = "source"
       /\ ~Has(text, st.next, member.before)
    THEN IF Has(text, st.next, <<"}">>)
         THEN Good(Append(st.value, "Server"), st.next + 1)
         ELSE Bad
    ELSE LET r == deserialize_value(
                    text, After(text, st.next, member.before), member.kind)
         IN  IF r.ok THEN Good(Append(st.value, r.value), r.next) ELSE Bad

\* the members one after the other; each result is a value before the next
\* member is read
RECURSIVE deserialize_members(_, _, _)
deserialize_members(text, members, st) ==
    IF members = <<>> \/ ~st.ok THEN st
    ELSE CHOOSE result \in
            {deserialize_members(text, Tail(members), read) :
                read \in {deserialize_member(text, Head(members), st)}} :
            TRUE

\* serde_json::from_str::<Message>(text) for an object with its members in
\* the order of the struct: the Message, or None for an error; whitespace
\* may follow the object
from_str(text) ==
    LET Parsed(read) ==
            IF /\ read.ok
               /\ Has(text, read.next, <<"}">>)
               /\ IsWhitespace(text, read.next + 1)
            THEN Some([msg_type |-> read.value[1],
                       sender_id |-> read.value[2],
                       target_id |-> read.value[3],
                       content |-> read.value[4],
                       sender_peer_address |-> read.value[5],
                       sender_listen_port |-> read.value[6],
                       timestamp |-> [secs_since_epoch |-> read.value[7],
                                      nanos_since_epoch |-> read.value[8]],
                       source |-> read.value[9]])
            ELSE None
    IN  CHOOSE decoded \in
            {Parsed(read) :
                read \in {deserialize_members(text, Members, Good(<<>>, 1))}} :
            TRUE

\* deserialize_message on the text (the symbols are valid UTF-8)
deserialize_bytes(data) == from_str(data)

\* message_data of try_parse_messages: the bytes before the first delimiter
RECURSIVE BeforeDelimiter(_)
BeforeDelimiter(data) ==
    IF data = <<>> \/ Head(data) = Newline THEN <<>>
    ELSE <<Head(data)>> \o BeforeDelimiter(Tail(data))

\* the Messages that are encoded: every type and source, strings with
\* quotes, backslashes and line feeds in each string field, absent and
\* present options, the smallest and largest ports and instants
BaseMessage ==
    [msg_type |-> "Chat", sender_id |-> <<"n">>, target_id |-> None,
     content |-> None, sender_peer_address |-> <<>>,
     sender_listen_port |-> 0,
     timestamp |-> [secs_since_epoch |-> 0, nanos_since_epoch |-> 0],
     source |-> "Server"]
CodecMessages ==
    {[BaseMessage EXCEPT !.msg_type = t, !.source = s] :
        t \in MessageTypes, s \in MessageSources}
    \cup {[BaseMessage EXCEPT !.sender_id = s, !.content = c] :
            s \in Strings, c \in OptionStrings}
    \cup {[BaseMessage EXCEPT !.target_id = g, !.sender_peer_address = a] :
            g \in OptionStrings, a \in Strings}
    \cup {[BaseMessage EXCEPT
              !.sender_listen_port = p,
              !.timestamp = [secs_since_epoch |-> secs,
                             nanos_since_epoch |-> nanos]] :
            p \in {0, 9101, U16_MAX}, secs \in {0, 1793979383},
            nanos \in {0, 1000, 999999999}}

InitCodec ==
    /\ InitProgram
    /\ \E message \in CodecMessages :
        codec = [pc |-> "message", message |-> message, data |-> <<>>,
                 stripped |-> FALSE, decoded |-> None]

Serialize ==
    /\ codec.pc = "message"
    /\ codec' = [codec EXCEPT !.pc = "data",
                              !.data = serialize_bytes(codec.message)]
    /\ UNCHANGED <<server_vars, client_vars>>

\* the receiver decodes the frame, or the bytes before its delimiter as
\* try_parse_messages does
Deserialize ==
    /\ codec.pc = "data"
    /\ \E stripped \in BOOLEAN :
        \E data \in {IF stripped THEN BeforeDelimiter(codec.data)
                                 ELSE codec.data} :
            codec' = [codec EXCEPT !.pc = "decoded",
                                   !.stripped = stripped,
                                   !.decoded = deserialize_bytes(data)]
    /\ UNCHANGED <<server_vars, client_vars>>

NextCodec == Serialize \/ Deserialize

SpecCodec == InitCodec /\ [][NextCodec]_vars

\* ----------------------------------------------------------------- claims
\* the server is about to handle a message of this type
Handling(msg_type) ==
    running /\ pending # <<>> /\ Head(pending).msg_type = msg_type

\* the calls of send_message of a step that carry msg to the connection to
Calls(log, to, msg) ==
    {i \in 1..Len(log) : log[i].to = to /\ log[i].msg = msg}
Notices(log, to, msg_type, user_id) ==
    {i \in 1..Len(log) :
        /\ log[i].to = to
        /\ log[i].msg.msg_type = msg_type
        /\ log[i].msg.sender_id = user_id}
Entries(dir, user_id) == {t \in DOMAIN dir : dir[t].user_id = user_id}
Failed(log) == {log[i].to : i \in {j \in 1..Len(log) : log[j].res = "error"}}

\* C1: after a Join from user U on connection c the directory holds exactly
\* one entry for U, every other registered connection is sent exactly one
\* UserJoined naming U, and c is sent none.  (A step in which the write to
\* c itself fails, which removes c again, is not held against the claim.)
C1_JoinOneEntryOneNotice ==
    [][Handling("Join") =>
        LET U == Head(pending).sender_id
            c == pend_token
        IN  /\ c \notin Failed(sent') => Cardinality(Entries(peers', U)) = 1
            /\ \A t \in (DOMAIN peers) \ {c} :
                  Cardinality(Notices(sent', t, "UserJoined", U)) = 1
            /\ Notices(sent', c, "UserJoined", U) = {}]_vars

\* C2: after a Leave from U's connection, or a detected disconnect of it
\* (read of 0 bytes, fatal read or write error), no entry of peers names U,
\* user_to_token has no key U, and the stream and the buffer of the
\* connection are gone in the same step.
Gone(U, t) ==
    /\ Entries(peers', U) = {}
    /\ U \notin DOMAIN user_to_token'
    /\ t \notin streams'
    /\ t \notin DOMAIN buffers'
C2_NoEntryAfterLeaveOrDisconnect ==
    [][/\ (Handling("Leave") /\ pend_token \in DOMAIN peers)
            => Gone(peers[pend_token].user_id, pend_token)
       /\ \A t \in streams \cap DOMAIN peers :
            \/ (last'.token = t
                  /\ last'.kind \in {"closed", "read_error", "write_error"})
            \/ (pending # <<>> /\ t \in Failed(sent')
                  /\ ~(Handling("Join") /\ t = pend_token))
            => Gone(peers[t].user_id, t)]_vars

\* C3: a Leave of U sends exactly one UserLeft naming U to every connection
\* that remains registered and none to the leaving connection; a detected
\* disconnect sends no UserLeft at all.
C3_LeaveNotifiesAllRemaining ==
    [][/\ Handling("Leave") =>
            LET U == Head(pending).sender_id
            IN  /\ \A t \in DOMAIN peers' :
                      Cardinality(Notices(sent', t, "UserLeft", U)) = 1
                /\ Notices(sent', pend_token, "UserLeft", U) = {}
       /\ (pending = <<>> /\ last'.kind \in {"closed", "read_error"})
            => sent' = <<>>]_vars

C5_BroadcastChat ==
    [][(Handling("Chat") /\ Head(pending).target_id = None) =>
        LET message == Head(pending)
        IN  /\ \A t \in DOMAIN peers :
                  Cardinality(Calls(sent', t, message)) = 1
            /\ \A i \in 1..Len(sent') : sent'[i].to \in DOMAIN peers]_vars

\* C6: the bytes a socket accepted are always a prefix of the frames given
\* to send_message for that connection, in the order they were given.
\* (A step is held against the claim only when it starts with the buffer
\* holding just the bytes still owed to the socket.)
C6_OutboundFifo ==
    [][\A t \in streams \cap streams' :
          (t \notin misordered /\ buffers[t] = owed[t])
              => t \notin misordered']_vars

\* C7: the buffer of a connection holds exactly the bytes received after
\* the last received delimiter; sending does not add to them and a writable
\* event does not remove or transmit them.
C7_InboundRemainderKept ==
    \A t \in streams : inbound[t] # <<>> => buffers[t] = inbound[t]

\* C8: a fatal transport error, on a read or on a write to a recipient,
\* tears down the failing connection only, and start does not return.
C8_FatalErrorKeepsLoop ==
    [][LET failed == Failed(sent') \cup
                     (IF last'.kind \in {"read_error", "write_error"}
                      THEN {last'.token} ELSE {})
       IN  (failed # {} /\ failed \subseteq streams) =>
              /\ running'
              /\ failed \cap streams' = {}
              /\ \A t \in streams \ (failed \cup {pend_token}) :
                    t \in streams']_vars

\* C9: a PeerListRequest is answered by exactly one PeerList message, sent
\* to the requesting connection only, whose content is the JSON array of one
\* (user_id, address, port) tuple per directory entry and nothing else.
C9_PeerListReply ==
    [][Handling("PeerListRequest") =>
        /\ Len(sent') = 1
        /\ sent'[1].to = pend_token
        /\ sent'[1].msg.msg_type = "PeerList"
        /\ \E ord \in Orders(DOMAIN peers) :
              sent'[1].msg.content =
                  Some(PeerListJson([i \in 1..Len(ord) |-> peers[ord[i]]]))]_vars

\* a request was just answered while two users were registered, after the
\* clock had advanced far enough for the sweep to act
C9_Witness ==
    /\ last.kind = "PeerListRequest"
    /\ Len(sent) = 1
    /\ sent[1].res = "written"
    /\ sent[1].to = last.token
    /\ Cardinality(DOMAIN peers) >= 2
    /\ now > PeerTimeoutSecs

\* alice at port 9101 and bob at port 9102 are registered and nobody else
AliceAndBob(dir) ==
    /\ Cardinality(DOMAIN dir) = 2
    /\ \E a, b \in DOMAIN dir :
          /\ dir[a].user_id = "alice" /\ dir[a].port = 9101
          /\ dir[b].user_id = "bob" /\ dir[b].port = 9102
          /\ dir[a].address = LocalAddr /\ dir[b].address = LocalAddr
AliceAsks ==
    /\ Handling("PeerListRequest")
    /\ AliceAndBob(peers)
    /\ pend_token \in DOMAIN peers
    /\ peers[pend_token].user_id = "alice"
BobJson == "[\"bob\",\"127.0.0.1\",9102]"
AliceJson == "[\"alice\",\"127.0.0.1\",9101]"

\* C10 as stated: with exactly alice and bob registered, the list alice
\* receives is [("bob","127.0.0.1",9102)], without an entry for alice.
C10_ListWithoutSelf ==
    [][AliceAsks =>
        sent'[1].msg.content = Some("[" \o BobJson \o "]")]_vars

\* C10 amended: the list alice receives holds the tuples of both alice and
\* bob, in either order.
C10_ListWithSelf ==
    [][AliceAsks =>
        /\ Len(sent') = 1
        /\ sent'[1].to = pend_token
        /\ sent'[1].msg.content \in
              {Some("[" \o AliceJson \o "," \o BobJson \o "]"),
               Some("[" \o BobJson \o "," \o AliceJson \o "]")}]_vars

\* alice just received the answer to her request while bob was registered
C10_Witness ==
    /\ last.kind = "PeerListRequest"
    /\ AliceAndBob(peers)
    /\ last.token \in DOMAIN peers
    /\ peers[last.token].user_id = "alice"
    /\ Len(sent) = 1
    /\ sent[1].to = last.token
    /\ sent[1].res = "written"

\* C11: a ConnectRequest naming T, with T registered, is answered by exactly
\* one ConnectResponse, sent to the requester only, with sender_id T and
\* content "<address>,<port>" as T gave them in its Join; with T unknown
\* nothing is sent; the directory does not change either way.  (A step in
\* which the write of the reply fails is not held against the claim.)
C11_ConnectRequestReply ==
    [][(/\ Handling("ConnectRequest")
        /\ Head(pending).target_id # None
        /\ Failed(sent') = {}) =>
        LET T == Head(pending).target_id[1]
            c == pend_token
        IN  /\ IF T \in DOMAIN user_to_token
               THEN /\ Len(sent') = 1
                    /\ sent'[1].to = c
                    /\ sent'[1].msg.msg_type = "ConnectResponse"
                    /\ sent'[1].msg.sender_id = T
                    /\ sent'[1].msg.content =
                          Some(LocalAddr \o "," \o ToString(PortOf(T)))
               ELSE sent' = <<>>
            /\ peers' = peers
            /\ user_to_token' = user_to_token]_vars

\* C12: the eviction sweep removes every directory entry whose last heartbeat
\* is more than 60 s old and keeps every entry within the window; after the
\* sweep no entry names an evicted user, so that no later PeerList lists the
\* user, and an entry for a user without one appears only when the server
\* handles a Join of that user.
Stale(t) == now - peers[t].last_heartbeat > PeerTimeoutSecs
C12_SweepEvictsStaleOnly ==
    [][/\ last'.kind = "timeout" =>
            \A t \in DOMAIN peers :
                IF Stale(t)
                THEN /\ t \notin DOMAIN peers'
                     /\ Entries(peers', peers[t].user_id) = {}
                ELSE t \in DOMAIN peers' /\ peers'[t] = peers[t]
       /\ \A U \in Users :
            (Entries(peers, U) = {} /\ Entries(peers', U) # {})
                => (Handling("Join") /\ Head(pending).sender_id = U)]_vars

\* the step is the one in which the client loop handles a control command
\* of this kind
Commanded(kind) ==
    /\ run.pc = "control"
    /\ run'.pc # "control"
    /\ client.control_receiver # <<>>
    /\ Head(client.control_receiver)[1] = kind
\* the message a step put last into the outbox
Enqueued == client'.message_receiver[Len(client'.message_receiver)]

\* C13: a smart-send for target P, while P is mapped to a direct link, puts a
\* message into the outbox that is routed to that link (MessageTarget::Peer
\* with the token of P, source Peer), the link being open; a smart-send for
\* a P that is not mapped (never linked, or its link torn down), or without
\* target, puts a message routed to the server (source Server).
C13_SmartRouting ==
    [][Commanded("SmartSendMessage") =>
        LET target_id == Head(client.control_receiver)[2]
        IN  /\ Len(client'.message_receiver)
                 = Len(client.message_receiver) + 1
            /\ Enqueued.message.msg_type = "Chat"
            /\ Enqueued.message.target_id = target_id
            /\ IF /\ target_id # None
                  /\ target_id[1] \in DOMAIN client.peer_to_token
               THEN /\ Enqueued.target
                         = Peer(client.peer_to_token[target_id[1]])
                    /\ Enqueued.target[2] \in client.streams
                    /\ Enqueued.message.source = "Peer"
               ELSE /\ Enqueued.target = Server
                    /\ Enqueued.message.source = "Server"]_vars

\* a direct link to bob was opened and torn down, and a chat line for bob
\* created afterwards waits in the outbox, routed to the server
C13_Witness ==
    /\ client.next_peer_token > FIRST_PEER_TOKEN
    /\ "bob" \notin DOMAIN client.peer_to_token
    /\ client.streams = {}
    /\ \E i \in 1..Len(client.message_receiver) :
          /\ client.message_receiver[i].target = Server
          /\ client.message_receiver[i].message.target_id = Some("bob")
          /\ client.message_receiver[i].message.source = "Server"

\* C14 (server): the frames a read hands to the protocol handler are the
\* well-formed frames of the bytes received on the connection, in the order
\* of their bytes, whether a frame came in one read or in several; and the
\* handler takes them one at a time from the front.  (A step in which a
\* write fails is not held against the claim.)
C14_DispatchInReceiveOrder ==
    [][/\ (last'.kind = "read" /\ heard' # <<>>) =>
            pending' = ParseFrames(heard', <<>>).messages
       /\ (running /\ pending # <<>> /\ Failed(sent') = {}) =>
            pending' = Tail(pending)]_vars

\* the frames of a byte sequence that decode, in the order of their bytes:
\* a frame ends at each delimiter and starts after the delimiter before it
FrameEndingAt(bytes, i) ==
    LET before == {j \in 1..(i - 1) : bytes[j].nl}
        start == IF before = {} THEN 1
                 ELSE 1 + CHOOSE j \in before : \A x \in before : x <= j
    IN  SubSeq(bytes, start, i - 1)
Decodes(frame) == Len(frame) = 1 /\ frame[1].json # <<>>
RECURSIVE WellFormedFrames(_, _)
WellFormedFrames(bytes, n) ==
    IF n = 0 THEN <<>>
    ELSE LET frames == WellFormedFrames(bytes, n - 1)
             frame == FrameEndingAt(bytes, n)
         IN  IF bytes[n].nl /\ Decodes(frame)
             THEN Append(frames, frame[1].json[1])
             ELSE frames
Malformed(bytes) ==
    \E i \in 1..Len(bytes) :
        bytes[i].nl /\ ~Decodes(FrameEndingAt(bytes, i))

C16_ReconnectPolicy ==
    [][/\ run'.pc = "returned" => Commanded("Stop")
       /\ run'.reconnect_attempts <= max_reconnect_attempts
       /\ (~is_connected(client) /\ is_connected(client')) =>
            run'.reconnect_attempts = 0
       /\ (run'.pc = "loop" /\ UNCHANGED produced) =>
            \/ run'.reconnect_attempts < max_reconnect_attempts
            \/ run'.reconnect_attempts = run.reconnect_attempts + 1]_vars

\* the step takes a Stop command from the control channel
StopDequeued ==
    /\ client.control_receiver # <<>>
    /\ Head(client.control_receiver) = Stop
    /\ client'.control_receiver = Tail(client.control_receiver)
\* the client without its two channels
Channelless(c) ==
    [c EXCEPT !.message_receiver = <<>>, !.control_receiver = <<>>]

\* C17: Stop is taken from the control channel only at the end of a tick,
\* after the tick's outbox drain and event processing completed (the drain
\* left the outbox empty); the step that takes it ends the loop, writes
\* nothing and handles nothing; once the loop has returned, no socket is
\* written, no message is handled and nothing is taken from the outbox or
\* from the control channel, whatever other threads still enqueue.
C17_StopEndsLoop ==
    [][/\ (run.pc # "control" /\ run'.pc = "control") =>
            client'.message_receiver = <<>>
       /\ StopDequeued =>
            /\ run.pc = "control"
            /\ run'.pc = "returned"
            /\ wire' = <<>> /\ handled' = <<>>
            /\ IsPrefix(client.message_receiver, client'.message_receiver)
            /\ Channelless(client') = Channelless(client)
       /\ run.pc = "returned" =>
            /\ run' = run
            /\ UNCHANGED <<wire, handled, received, unparsed>>
            /\ IsPrefix(client.message_receiver, client'.message_receiver)
            /\ IsPrefix(client.control_receiver, client'.control_receiver)
            /\ Channelless(client') = Channelless(client)]_vars
\* the loop has returned on a Stop that followed a ConnectToPeer, and a
\* message of another thread waits in the outbox
C17_Witness ==
    /\ run.pc = "returned"
    /\ client.peer_to_token # <<>>
    /\ client.message_receiver # <<>>

\* the socket an outbox entry is addressed to
Destination(pending_message) ==
    IF pending_message.target = Server THEN SERVER
    ELSE pending_message.target[2]

\* C18: in a tick's drain of the outbox every write puts the frame of an
\* outbox entry on the socket that entry is addressed to; the writes follow
\* the order of the outbox, which is the order of enqueueing; and of the
\* writes to one destination no two put bytes of the same entry on the
\* socket (no message is written twice), whatever the writes return.
C18_OutboxOrder ==
    [][(run.pc # "control" /\ UNCHANGED produced) =>
         /\ \A i \in DOMAIN wire' :
              /\ wire'[i].at \in DOMAIN client.message_receiver
              /\ wire'[i].msg = client.message_receiver[wire'[i].at].message
              /\ wire'[i].to =
                    Destination(client.message_receiver[wire'[i].at])
         /\ \A i, j \in DOMAIN wire' :
              (i < j /\ wire'[i].to = wire'[j].to) =>
                 /\ wire'[i].at <= wire'[j].at
                 /\ (wire'[i].n > 0 /\ wire'[j].n > 0) =>
                       wire'[i].at < wire'[j].at]_vars

\* the (address, port) pairs that the text "address,port" names
AddressPort(content) ==
    {ap \in {LocalAddr} \X {PortOf(u) : u \in Users} :
        content = ap[1] \o "," \o ToString(ap[2])}

\* C19: a step in which the client handles a ConnectResponse of sender P
\* with content "address,port" leaves an entry for P in known_peers that
\* holds that address and that port.
C19_ConnectResponseUpserts ==
    [][(run.pc # "control" /\ UNCHANGED produced) =>
         \A i \in DOMAIN handled' :
            (handled'[i].msg_type = "ConnectResponse"
                /\ handled'[i].content # None) =>
               \A ap \in AddressPort(handled'[i].content[1]) :
                  /\ handled'[i].sender_id \in DOMAIN client'.known_peers
                  /\ client'.known_peers[handled'[i].sender_id].address
                        = ap[1]
                  /\ client'.known_peers[handled'[i].sender_id].port
                        = ap[2]]_vars

\* the number of delimiter bytes in data
RECURSIVE Delimiters(_)
Delimiters(data) ==
    IF data = <<>> THEN 0
    ELSE (IF Head(data) = Newline THEN 1 ELSE 0) + Delimiters(Tail(data))

\* C20: the frame of an encoded Message holds the delimiter byte exactly
\* once, as its last byte; decoding the frame, with its delimiter or with
\* the delimiter stripped, gives a Message equal to the encoded one in
\* every field.
C20_RoundTrip ==
    /\ codec.pc \in {"data", "decoded"} =>
          /\ Delimiters(codec.data) = 1
          /\ codec.data[Len(codec.data)] = Newline
    /\ codec.pc = "decoded" => codec.decoded = Some(codec.message)
\* a Message whose content holds a line feed and a quote was encoded, and
\* decoded from the bytes before the delimiter
C20_Witness ==
    /\ codec.pc = "decoded"
    /\ codec.stripped
    /\ codec.message.content = Some(<<Newline, QuoteMark>>)
    /\ codec.decoded # None

\* C21: the sweep removes, for every connection whose directory entry has
\* timed out, its stream, its buffer, its directory entry and every
\* user_to_token mapping that leads to it, all in the sweep step; the sweep
\* calls send_message for nobody, and leaves nothing to be written to any
\* connection that it did not already owe.
C21_EvictionSilentAndComplete ==
    [][last'.kind = "timeout" =>
         /\ \A t \in DOMAIN peers :
              Stale(t) =>
                 /\ t \notin streams'
                 /\ t \notin DOMAIN buffers'
                 /\ t \notin DOMAIN peers'
                 /\ \A u \in DOMAIN user_to_token' : user_to_token'[u] # t
         /\ sent' = <<>>
         /\ \A t \in streams' : owed'[t] = owed[t] /\ buffers'[t] = buffers[t]
      ]_vars

\* C22: the step in which the server handles the readiness of its listener
\* accepts every connection that waits there: none is left waiting, each
\* gets the next token, a stream, an empty buffer and read interest.
C22_AcceptsAllPending ==
    [][(listener.ready /\ ~listener'.ready) =>
         /\ listener'.pending = 0
         /\ next_token' = next_token + listener.pending
         /\ \A t \in next_token .. (next_token' - 1) :
              /\ t \in streams'
              /\ buffers'[t] = <<>>
              /\ interest'[t] = "R"]_vars

\* C23: connection identities are never reused. On the server and on the
\* client the token counter never goes back, every connection that appears
\* in a step holds a token at or above the counter before the step, below
\* the counter after it and outside the reserved tokens, and every open
\* connection holds a token below the counter: a token handed out is
\* greater than all handed out before, whether those are open or closed.
C23_TokensNeverReused ==
    [][/\ next_token' >= next_token
       /\ \A t \in streams' \ streams :
             /\ next_token <= t
             /\ t < next_token'
             /\ t \notin {SERVER, WAKE}
       /\ \A t \in streams' : t < next_token'
       /\ client'.next_peer_token >= client.next_peer_token
       /\ \A t \in client'.streams \ client.streams :
             /\ client.next_peer_token <= t
             /\ t < client'.next_peer_token
             /\ t \notin {SERVER, LISTENER}
       /\ \A t \in client'.streams : t < client'.next_peer_token]_vars

\* a link of the client was closed and later ones are open above it, with
\* one of them made by connect_to_peer
C23_Witness ==
    /\ client.next_peer_token = FIRST_PEER_TOKEN + MaxConns
    /\ FIRST_PEER_TOKEN \notin client.streams
    /\ client.streams # {}
    /\ client.peer_to_token # <<>>

\* the control check of this step took ConnectToPeer(peer_id) from the
\* control channel
ConnectDequeued(peer_id) ==
    /\ run.pc = "control"
    /\ run'.pc = "loop"
    /\ client.control_receiver # <<>>
    /\ Head(client.control_receiver) = ConnectToPeer(peer_id)
    /\ client'.control_receiver = Tail(client.control_receiver)
\* a ConnectRequest naming peer_id was written to the server link in this
\* step or is in the outbox for the server after it
ConnectRequested(peer_id) ==
    \/ \E i \in DOMAIN wire' :
          /\ wire'[i].to = SERVER
          /\ wire'[i].msg.msg_type = "ConnectRequest"
          /\ wire'[i].msg.target_id = Some(peer_id)
    \/ \E i \in DOMAIN client'.message_receiver :
          /\ client'.message_receiver[i].message.msg_type = "ConnectRequest"
          /\ client'.message_receiver[i].message.target_id = Some(peer_id)
\* what connect_to_peer(peer_id) returns to its caller in the present state
\* when TcpStream::connect gives connected
Returned(peer_id, connected) ==
    connect_to_peer(Work(client, now), peer_id, connected).result

\* C24: a control check that takes ConnectToPeer(P) for a P of known_peers
\* without a direct link, and whose connection attempt fails, gets Ok from
\* connect_to_peer, sends or enqueues a ConnectRequest naming P for the
\* server, and leaves P without mapping and the streams as they were.
C24_FailedConnectAsksServer ==
    [][\A P \in Users :
         (/\ ConnectDequeued(P)
          /\ P \in DOMAIN client.known_peers
          /\ P \notin DOMAIN client.peer_to_token
          /\ P # client.user_id
          /\ client'.next_peer_token = client.next_peer_token) =>
            /\ Returned(P, FALSE) = "Ok"
            /\ ConnectRequested(P)
            /\ P \notin DOMAIN client'.peer_to_token
            /\ client'.streams = client.streams]_vars

\* C25: a control check that takes ConnectToPeer(P) for a P that is not in
\* known_peers gets Ok from connect_to_peer, sends or enqueues a
\* ConnectRequest naming P for the server, and changes neither streams,
\* buffers, peer_to_token, known_peers nor the token counter.
C25_UnknownConnectAsksServer ==
    [][\A P \in Users :
         (/\ ConnectDequeued(P)
          /\ P \notin DOMAIN client.known_peers
          /\ P \notin DOMAIN client.peer_to_token
          /\ P # client.user_id) =>
            /\ \A connected \in BOOLEAN : Returned(P, connected) = "Ok"
            /\ ConnectRequested(P)
            /\ client'.streams = client.streams
            /\ client'.buffers = client.buffers
            /\ client'.peer_to_token = client.peer_to_token
            /\ client'.known_peers = client.known_peers
            /\ client'.next_peer_token = client.next_peer_token]_vars

\* C26: a control check that takes ConnectToPeer(P) for a P that has a
\* direct link gets Ok from connect_to_peer and changes neither streams,
\* buffers, peer_to_token, known_peers nor the token counter; and after
\* every step no two peers are mapped to one token and every mapped token
\* is an open stream or was one before the step.
C26_LinkedConnectIsNoOp ==
    [][/\ \A P \in Users :
            (ConnectDequeued(P) /\ P \in DOMAIN client.peer_to_token) =>
               /\ \A connected \in BOOLEAN : Returned(P, connected) = "Ok"
               /\ client'.streams = client.streams
               /\ client'.buffers = client.buffers
               /\ client'.peer_to_token = client.peer_to_token
               /\ client'.known_peers = client.known_peers
               /\ client'.next_peer_token = client.next_peer_token
       /\ \A P \in DOMAIN client.peer_to_token :
            P \in DOMAIN client'.peer_to_token =>
               client'.peer_to_token[P] = client.peer_to_token[P]
      ]_vars
\* bob is linked over an open stream and the control check is about to
\* take a further ConnectToPeer(bob): the step that follows is the no-op,
\* which leaves no trace of its own
C26_Witness ==
    /\ "bob" \in DOMAIN client.peer_to_token
    /\ client.peer_to_token["bob"] \in client.streams
    /\ run.pc = "control"
    /\ client.control_receiver # <<>>
    /\ Head(client.control_receiver) = ConnectToPeer("bob")

\* the tokens that peer_to_token maps a peer to
Linked(c) == {c.peer_to_token[u] : u \in DOMAIN c.peer_to_token}

\* C27: a step in which the client handles a UserLeft naming P leaves P out
\* of known_peers and out of peer_to_token, the stream and the buffer of a
\* direct link to P are removed, and a smart-send to P made after the step
\* is addressed to the server.
C27_UserLeftForgetsPeer ==
    [][(run.pc # "control" /\ UNCHANGED produced) =>
         \A i \in DOMAIN handled' :
            handled'[i].msg_type = "UserLeft" =>
               LET P == handled'[i].sender_id
               IN  /\ P \notin DOMAIN client'.known_peers
                   /\ P \notin DOMAIN client'.peer_to_token
                   /\ P \in DOMAIN client.peer_to_token =>
                         /\ client.peer_to_token[P] \notin client'.streams
                         /\ client.peer_to_token[P]
                               \notin DOMAIN client'.buffers
                   /\ create_smart_chat_message(client', Some(P), "hi").target
                         = Server]_vars

\* C28: a step in which a message naming sender S is handled that arrived
\* on an open peer link no peer is mapped to, while S is mapped to no link,
\* leaves S mapped to the token of that link, and a smart-send to S made
\* after the step is addressed to that link.
C28_InboundLinkIdentified ==
    [][(run.pc # "control" /\ UNCHANGED produced) =>
         \A i \in DOMAIN handled' :
            LET S == handled'[i].sender_id
                t == received'.token
            IN  (/\ t \in client.streams
                 /\ t \notin Linked(client)
                 /\ S \notin DOMAIN client.peer_to_token) =>
                   /\ S \in DOMAIN client'.peer_to_token
                   /\ client'.peer_to_token[S] = t
                   /\ Destination(
                         create_smart_chat_message(client', Some(S), "hi"))
                         = t]_vars

\* the peer lists of the well-formed PeerList messages in log
ListsOf(log) ==
    {ParsePeerList(log[i].content[1])[1] :
        i \in {j \in DOMAIN log :
                 /\ log[j].msg_type = "PeerList"
                 /\ log[j].content # None
                 /\ ParsePeerList(log[j].content[1]) # None}}

\* C29: after every step known_peers has no entry for the client's own
\* user_id; and after a step that handled a well-formed PeerList every
\* tuple of the list that names another user has an entry in known_peers
\* under its user_id, which holds the address and the port of the last
\* tuple of the list that names this user.
C29_NeverKnowsItself ==
    [][/\ client'.user_id \notin DOMAIN client'.known_peers
       /\ (run.pc # "control" /\ UNCHANGED produced) =>
            \A peer_list \in ListsOf(handled') :
               \A i \in DOMAIN peer_list :
                  LET t == peer_list[i]
                  IN  (/\ t.user_id # client.user_id
                       /\ \A j \in DOMAIN peer_list :
                             j > i => peer_list[j].user_id # t.user_id) =>
                         /\ t.user_id \in DOMAIN client'.known_peers
                         /\ client'.known_peers[t.user_id].user_id = t.user_id
                         /\ client'.known_peers[t.user_id].address = t.address
                         /\ client'.known_peers[t.user_id].port = t.port]_vars
\* a PeerList that holds the client's own tuple and bob's was handled
C29_Witness ==
    /\ \E peer_list \in ListsOf(handled) :
          /\ \E i \in DOMAIN peer_list : peer_list[i].user_id = client.user_id
          /\ \E i \in DOMAIN peer_list : peer_list[i].user_id = "bob"
    /\ "bob" \in DOMAIN client.known_peers

\* the Heartbeat messages among the outbox entries q
Beats(q) == {i \in DOMAIN q : q[i].message.msg_type = "Heartbeat"}

\* C30: a step that adds a Heartbeat to the outbox adds exactly one, for the
\* server, in a state where the server link is present and more than the
\* heartbeat interval has passed since last_heartbeat; last_heartbeat
\* changes in such a step only, to the present time; and a step taken
\* while the server link is absent adds no Heartbeat to the outbox, writes
\* no Heartbeat to a socket and leaves last_heartbeat as it was.
C30_HeartbeatOnlyWhenDue ==
    [][/\ Cardinality(Beats(client'.message_receiver))
            > Cardinality(Beats(client.message_receiver)) =>
            /\ now - client.last_heartbeat > ClientHeartbeatSecs
            /\ is_connected(client)
            /\ Cardinality(Beats(client'.message_receiver))
                  = Cardinality(Beats(client.message_receiver)) + 1
            /\ \A i \in Beats(client'.message_receiver) :
                  client'.message_receiver[i].target = Server
            /\ client'.last_heartbeat = now
       /\ client'.last_heartbeat # client.last_heartbeat =>
            Cardinality(Beats(client'.message_receiver))
               > Cardinality(Beats(client.message_receiver))
       /\ ~is_connected(client) =>
            /\ Cardinality(Beats(client'.message_receiver))
                  <= Cardinality(Beats(client.message_receiver))
            /\ (run.pc # "control" /\ UNCHANGED <<produced, now>>) =>
                  \A i \in DOMAIN wire' :
                     wire'[i].msg.msg_type # "Heartbeat"
            /\ client'.last_heartbeat = client.last_heartbeat]_vars
\* two intervals passed, a Heartbeat is in the outbox for the link that was
\* re-established after a loss
C30_Witness ==
    /\ Beats(client.message_receiver) # {}
    /\ client.last_heartbeat = 2 * ClientHeartbeatSecs
    /\ is_connected(client)

\* C31: in every state the two directory maps of the server agree: every
\* token of peers is the token that user_to_token holds for the user_id of
\* its entry, and every user of user_to_token is mapped to a token of peers
\* whose entry holds that user_id.
C31_DirectoryMapsAgree ==
    /\ \A t \in DOMAIN peers :
          /\ peers[t].user_id \in DOMAIN user_to_token
          /\ user_to_token[peers[t].user_id] = t
    /\ \A u \in DOMAIN user_to_token :
          /\ user_to_token[u] \in DOMAIN peers
          /\ peers[user_to_token[u]].user_id = u

\* the tokens that the directory of the server names
Registered == DOMAIN peers \cup {user_to_token[u] : u \in DOMAIN user_to_token}

\* C33: in every state of the running server between two handlers, every
\* token that is a key of peers or a value of user_to_token has an open
\* stream and a buffer.
C33_DirectoryHasStreams ==
    (running /\ pending = <<>>) =>
        \A t \in Registered : t \in streams /\ t \in DOMAIN buffers

\* C32: when user U is registered on an old connection and, by a later
\* Join, on a new one that user_to_token names, a step in which the server
\* reads the close of the old connection or evicts it, and keeps the new
\* one, leaves U mapped to the new connection; and a Chat for a target that
\* has a peers entry with an open stream is sent to such a connection.
C32_RejoinedUserStaysRegistered ==
    [][/\ \A old, new \in DOMAIN peers :
            (/\ old # new
             /\ peers[old].user_id = peers[new].user_id
             /\ peers[new].user_id \in DOMAIN user_to_token
             /\ user_to_token[peers[new].user_id] = new
             /\ new \in streams
             /\ last'.kind \in {"closed", "timeout"}
             /\ old \notin DOMAIN peers'
             /\ new \in DOMAIN peers') =>
                /\ peers[new].user_id \in DOMAIN user_to_token'
                /\ user_to_token'[peers[new].user_id] = new
       /\ (Handling("Chat") /\ Head(pending).target_id # None) =>
            \A new \in DOMAIN peers :
               (/\ peers[new].user_id = Head(pending).target_id[1]
                /\ new \in streams
                /\ Cardinality(Entries(peers, peers[new].user_id)) = 1) =>
                  \E i \in DOMAIN sent' : sent'[i].to = new]_vars

\* C34: a broadcast calls send_message for every intended recipient with an
\* open stream whose write did not fail in the step: an untargeted Chat for
\* every registered connection, the UserJoined of a Join for every
\* registered connection but the joining one, the UserLeft of a Leave for
\* every connection that stays registered.
C34_BroadcastSurvivesFailure ==
    [][/\ (Handling("Chat") /\ Head(pending).target_id = None) =>
            \A t \in (DOMAIN peers \cap streams) \ Failed(sent') :
               Calls(sent', t, Head(pending)) # {}
       /\ Handling("Join") =>
            \A t \in (DOMAIN peers \cap streams)
                        \ (Failed(sent') \cup {pend_token}) :
               Notices(sent', t, "UserJoined", Head(pending).sender_id) # {}
       /\ Handling("Leave") =>
            \A t \in (DOMAIN peers \cap streams)
                        \ (Failed(sent') \cup {pend_token}) :
               Notices(sent', t, "UserLeft", Head(pending).sender_id) # {}
      ]_vars

\* C35: every UserLeft that the handling of a Leave sends names the user_id
\* registered on the connection the Leave arrived on, which is the entry
\* the step removes, and no user named by such a UserLeft is registered on
\* any connection after the step.  (Steps in which a write fails are not
\* held against the claim.)
C35_LeaveNamesRegisteredUser ==
    [][(Handling("Leave") /\ Failed(sent') = {}) =>
         /\ \A i \in DOMAIN sent' :
              sent'[i].msg.msg_type = "UserLeft" =>
                 /\ pend_token \in DOMAIN peers
                 /\ sent'[i].msg.sender_id = peers[pend_token].user_id
                 /\ Entries(peers', sent'[i].msg.sender_id) = {}
                 /\ sent'[i].msg.sender_id \notin DOMAIN user_to_token'
         /\ \A t \in DOMAIN peers \ {pend_token} : t \in DOMAIN peers'
      ]_vars

\* C36: in the first tick on a server link that was just established, the
\* first write to the link that succeeds carries the Join of the client
\* with its listen port, whatever the outbox held when the link was made.
C36_JoinFirstOnLink ==
    [][(run.pc = "poll" /\ run'.pc # "poll") =>
         \A i \in DOMAIN wire' :
            (/\ wire'[i].to = SERVER
             /\ wire'[i].res = "Ok"
             /\ \A j \in 1..(i - 1) :
                   wire'[j].to # SERVER \/ wire'[j].res # "Ok") =>
               /\ wire'[i].msg.msg_type = "Join"
               /\ wire'[i].msg.sender_id = client.user_id
               /\ wire'[i].msg.sender_listen_port = client.listen_port]_vars

\* a Stop is in the control channel
StopQueued ==
    \E i \in DOMAIN client.control_receiver : client.control_receiver[i] = Stop

\* C37: once a Stop is in the control channel, run returns.
C37_StopLeadsToReturn == StopQueued ~> (run.pc = "returned")

\* the server link is absent and the loop is about to poll and drain the
\* outbox all the same: no reconnection attempt is left
Offline ==
    /\ ~is_connected(client)
    /\ run.pc = "loop"
    /\ run.reconnect_attempts >= max_reconnect_attempts
\* the entries of the outbox q up to the first one for a peer
RECURSIVE ForServer(_)
ForServer(q) ==
    IF q = <<>> \/ Head(q).target # Server THEN 0
    ELSE 1 + ForServer(Tail(q))

\* C38: a drain of the outbox made while the server link is absent takes
\* every entry for the server that it reaches out of the outbox, writes
\* none of them to any socket and raises no error for them: the entries
\* in front of the first entry for a peer are gone after the step, the
\* outbox is a remainder of what it was, and when the outbox held entries
\* for the server only the tick goes on to the control check with the
\* link still absent.
C38_OfflineServerMessageDropped ==
    [][(/\ Offline
        /\ UNCHANGED produced
        /\ Len(client'.message_receiver) < Len(client.message_receiver)) =>
          LET q == client.message_receiver
              n == ForServer(q)
          IN  /\ Len(client'.message_receiver) <= Len(q) - n
              /\ client'.message_receiver =
                    SubSeq(q, Len(q) - Len(client'.message_receiver) + 1,
                           Len(q))
              /\ \A i \in DOMAIN wire' :
                    wire'[i].to # SERVER /\ wire'[i].at > n
              /\ n = Len(q) =>
                    /\ client'.message_receiver = <<>>
                    /\ run'.pc = "control"
                    /\ ~is_connected(client')]_vars
\* the link is absent, no attempt is left, and the outbox holds a chat line
\* for the server that the next drain will take: the drop itself leaves no
\* trace in the state
C38_Witness ==
    /\ Offline
    /\ client.message_receiver # <<>>
    /\ Head(client.message_receiver).target = Server
    /\ Head(client.message_receiver).message.msg_type = "Chat"

\* the entries of the outbox q that are for a peer token without stream
StaleAt(q) ==
    {i \in DOMAIN q :
        q[i].target # Server /\ q[i].target[2] \notin client.streams}

\* C39: a drain of the outbox that reaches the first entry for a peer token
\* without stream, all writes before it having succeeded, takes that entry
\* out of the outbox and stops: no write carries this entry or a later one,
\* the entries behind it stay in the outbox in their order, the tick ends
\* with an error at the head of the loop, the error of the send being
\* PeerNotFound, and nothing else of the client changes (the entry is not
\* enqueued again for the server).
C39_StalePeerMessageDropped ==
    [][(/\ run.pc \in {"poll", "loop"}
        /\ run'.pc # "poll"
        /\ UNCHANGED produced
        /\ Len(client'.message_receiver) < Len(client.message_receiver)
        /\ StaleAt(client.message_receiver) # {}
        /\ \A i \in DOMAIN wire' : wire'[i].res = "Ok") =>
          LET q == client.message_receiver
              first == CHOOSE i \in StaleAt(q) :
                          \A j \in StaleAt(q) : i <= j
          IN  /\ client' = [client EXCEPT
                              !.message_receiver = SubSeq(q, first + 1, Len(q))]
              /\ \A i \in DOMAIN wire' : wire'[i].at < first
              /\ run'.pc = "loop"
              /\ send_message_to_peer(Work(client, now), q[first].target[2],
                                      first, q[first].message,
                                      <<Ok, Ok>>).result = "PeerNotFound"]_vars
\* the outbox holds an entry for a peer token without stream and another
\* entry behind it, and the loop is about to drain it
C39_Witness ==
    /\ run.pc \in {"poll", "loop"}
    /\ is_connected(client)
    /\ Len(client.message_receiver) >= 2
    /\ 1 \in StaleAt(client.message_receiver)

\* C40: in every state of the client no two peers are mapped to one token,
\* and every token that peer_to_token holds is an open stream and has a
\* buffer.
C40_LinksAreWhole ==
    /\ \A u, v \in DOMAIN client.peer_to_token :
          u # v => client.peer_to_token[u] # client.peer_to_token[v]
    /\ \A u \in DOMAIN client.peer_to_token :
          /\ client.peer_to_token[u] \in client.streams
          /\ client.peer_to_token[u] \in DOMAIN client.buffers
\* bob and carol are both linked, carol on the link made first: bob's first
\* link was closed and removed, or carol was connected before bob
C40_Witness ==
    /\ DOMAIN client.peer_to_token = {"bob", "carol"}
    /\ client.peer_to_token["carol"] < client.peer_to_token["bob"]

====
